---- MODULE Spec2Model ----
(***************************************************************************)
(* PyFlow: the code-to-flowchart compiler (FlowchartGenerator) and the     *)
(* generate-flowchart endpoint that drives it.                             *)
(*                                                                         *)
(* A run r is one request to the endpoint: it constructs a generator,      *)
(* calls generate_from_code on the request's code and answers.  The        *)
(* recursion of process_statement is an explicit call stack, one frame per *)
(* compound statement being visited, so that every intermediate state of   *)
(* the builder is a state of the model.                                    *)
(*                                                                         *)
(* Beside it the debug endpoint, one request at a time, and the websocket  *)
(* endpoint with its ConnectionManager: one coroutine for each user, which *)
(* runs from one await to the next in a step, the coroutines of the other  *)
(* users taking their steps in between.                                    *)
(***************************************************************************)
EXTENDS Integers, Sequences, FiniteSets, TLC

\* ------------------------------------------------------------------ bounds

\* Largest number of statements (at any depth) of an input program.
MaxStmts == 3
\* The same for the input two runs compile side by side.
MaxStmtsTwice == 2
\* The same for the inputs of the complexity estimate alone.
MaxStmtsAnalysis == 5
\* The same for the request compiled by a generator that has served others.
MaxStmtsReuse == 3
\* The same for a request answered beside a request of another code.
MaxStmtsPair == 2
\* DebugRequest.current_line is None or some line in 0..MaxDebugLine.
MaxDebugLine == 11
\* The measured execution time is some value in 0..MaxTime (milliseconds).
MaxTime == 1

\* create_node's line_no default (None): statements' line numbers start at 1.
NoLine == 0

\* The requests (runs) of the model.
Runs == {1, 2}

\* ------------------------------------------------------ syntax trees (ast)

\* Expressions: [kind, id, operands].  id is the name (Name), the literal's
\* text (Constant), the operator (Compare) or the attribute (Attribute).
Name(id) == [kind |-> "Name", id |-> id, operands |-> <<>>]
Constant(txt) == [kind |-> "Constant", id |-> txt, operands |-> <<>>]
Compare(l, op, r) == [kind |-> "Compare", id |-> op, operands |-> <<l, r>>]
Subscript(v, s) == [kind |-> "Subscript", id |-> "", operands |-> <<v, s>>]
Attribute(v, attr) == [kind |-> "Attribute", id |-> attr, operands |-> <<v>>]
Call(func, args) == [kind |-> "Call", id |-> "", operands |-> <<func>> \o args]
NoExpr == [kind |-> "None", id |-> "", operands |-> <<>>]

\* Statements: one record shape for every kind; the fields a kind does not
\* have are empty.  expr is the test (If, While), the iterable (For) or the
\* value (Expr, Return, Assign); target is the loop variable of a For.
Stmt(kind, lineno, targets, target, expr, name, args, body, orelse) ==
    [kind |-> kind, lineno |-> lineno, targets |-> targets, target |-> target,
     expr |-> expr, name |-> name, args |-> args, body |-> body,
     orelse |-> orelse]

\* y = a[0] = z = 2
AssignYZ(L) ==
    Stmt("Assign", L, <<Name("y"), Subscript(Name("a"), Constant("0")), Name("z")>>,
         NoExpr, Constant("2"), "", <<>>, <<>>, <<>>)
\* return x
ReturnX(L) == Stmt("Return", L, <<>>, NoExpr, Name("x"), "", <<>>, <<>>, <<>>)
\* print(x)
CallPrint(L) ==
    Stmt("Expr", L, <<>>, NoExpr, Call(Name("print"), <<Name("x")>>), "", <<>>, <<>>, <<>>)
\* obj.run()
CallMethod(L) ==
    Stmt("Expr", L, <<>>, NoExpr, Call(Attribute(Name("obj"), "run"), <<>>), "", <<>>, <<>>, <<>>)
\* x      (an expression statement that is no call)
ExprX(L) == Stmt("Expr", L, <<>>, NoExpr, Name("x"), "", <<>>, <<>>, <<>>)
\* pass
PassStmt(L) == Stmt("Pass", L, <<>>, NoExpr, NoExpr, "", <<>>, <<>>, <<>>)
\* if x > 0: body   else: orelse
IfStmt(L, body, orelse) ==
    Stmt("If", L, <<>>, NoExpr, Compare(Name("x"), ">", Constant("0")), "", <<>>, body, orelse)
\* for i in items: body
ForStmt(L, body) ==
    Stmt("For", L, <<>>, Name("i"), Name("items"), "", <<>>, body, <<>>)
\* while x > 0: body
WhileStmt(L, body) ==
    Stmt("While", L, <<>>, NoExpr, Compare(Name("x"), ">", Constant("0")), "", <<>>, body, <<>>)
\* def f(n): body
FunctionDef(L, body) ==
    Stmt("FunctionDef", L, <<>>, NoExpr, NoExpr, "f", <<"n">>, body, <<>>)

\* The simple statements, by name, at line L.
Leaf(name, L) ==
    CASE name = "assign" -> AssignYZ(L)
      [] name = "return" -> ReturnX(L)
      [] name = "print" -> CallPrint(L)
      [] name = "method" -> CallMethod(L)
      [] name = "expr" -> ExprX(L)
      [] name = "pass" -> PassStmt(L)

AllLeaves == {"assign", "return", "print", "method", "expr", "pass"}

RECURSIVE Size(_)
\* The number of statements of a statement list, nested ones included.
Size(ss) ==
    IF ss = <<>> THEN 0
    ELSE 1 + Size(Head(ss).body) + Size(Head(ss).orelse) + Size(Tail(ss))

RECURSIVE Lines(_)
\* The source lines a statement list takes, one statement per line and one
\* line for an "else:".
Lines(ss) ==
    IF ss = <<>> THEN 0
    ELSE 1 + Lines(Head(ss).body)
           + (IF Head(ss).orelse = <<>> THEN 0 ELSE 1 + Lines(Head(ss).orelse))
           + Lines(Tail(ss))

RECURSIVE StmtsAt(_, _, _), ForestsAt(_, _, _)
\* The statements of at most n statements whose first line is L and whose
\* simple statements are among leaves.  A body is never empty, an else
\* branch may be.
StmtsAt(n, L, leaves) ==
    IF n = 0 THEN {}
    ELSE LET bodies == ForestsAt(n - 1, L + 1, leaves) \ {<<>>}
         IN  {Leaf(name, L) : name \in leaves}
             \cup {ForStmt(L, b) : b \in bodies}
             \cup {WhileStmt(L, b) : b \in bodies}
             \cup {FunctionDef(L, b) : b \in bodies}
             \cup UNION {{IfStmt(L, b, e) :
                             e \in ForestsAt(n - 1 - Size(b), L + Lines(b) + 2, leaves)} :
                         b \in bodies}

\* The statement lists of at most n statements whose first line is L.
ForestsAt(n, L, leaves) ==
    {<<>>} \cup UNION {{<<s>> \o rest :
                           rest \in ForestsAt(n - Size(<<s>>), L + Lines(<<s>>), leaves)} :
                       s \in StmtsAt(n, L, leaves)}

\* What the rest of the code reads of the raw text: the number of lines of
\* code.split('\n') and whether some line holds a docstring mark or 'try:'.
Texts ==
    {[nlines |-> 4, docstrings |-> FALSE, try_except |-> FALSE],
     [nlines |-> 51, docstrings |-> TRUE, try_except |-> FALSE]}

\* The parser's messages for the inputs it rejects.
ParserMessages == {"invalid syntax (<unknown>, line 1)"}

\* request.code, as the parser sees it: a module body, or a syntax error.
Source(ok, body, msg, text) == [ok |-> ok, body |-> body, msg |-> msg, text |-> text]
NoSource == Source(FALSE, <<>>, "", [nlines |-> 0, docstrings |-> FALSE, try_except |-> FALSE])
InvalidSources ==
    {Source(FALSE, <<>>, m, [nlines |-> 1, docstrings |-> FALSE, try_except |-> FALSE]) :
        m \in ParserMessages}

\* The requests of at most n statements over the simple statements leaves.
SourcesOf(n, leaves, texts) ==
    {Source(TRUE, b, "", t) : b \in ForestsAt(n, 1, leaves), t \in texts} \cup InvalidSources

Sources == SourcesOf(MaxStmts, AllLeaves, Texts)

\* Two requests to go before or beside another: one whose compilation fills
\* every field of the generator, and one the parser rejects.
SampleSources ==
    {Source(TRUE, <<AssignYZ(1), FunctionDef(2, <<PassStmt(3)>>)>>, "",
            [nlines |-> 51, docstrings |-> FALSE, try_except |-> FALSE])}
    \cup InvalidSources

\* ------------------------------------------------------------ ast helpers

\* The module node ast.parse returns.
Module(body) == Stmt("Module", NoLine, <<>>, NoExpr, NoExpr, "", <<>>, body, <<>>)

\* A walk that does not go into the body of a function definition.
ChildNodes_skip_defs(n) ==
    IF "body" \in DOMAIN n
    THEN (IF n.kind = "Assign" THEN n.targets ELSE <<>>)
         \o (IF n.target.kind # "None" THEN <<n.target>> ELSE <<>>)
         \o (IF n.expr.kind # "None" THEN <<n.expr>> ELSE <<>>)
         \o (IF n.kind = "FunctionDef" THEN <<>> ELSE n.body \o n.orelse)
    ELSE n.operands

\* ast.iter_child_nodes, in field order.  Statements carry a body field,
\* expressions do not.  The nodes that no isinstance test of the code can
\* match (contexts, operators, the arguments of a def) are left out.
ChildNodes(n) ==
    IF "body" \in DOMAIN n
    THEN (IF n.kind = "Assign" THEN n.targets ELSE <<>>)
         \o (IF n.target.kind # "None" THEN <<n.target>> ELSE <<>>)
         \o (IF n.expr.kind # "None" THEN <<n.expr>> ELSE <<>>)
         \o n.body \o n.orelse
    ELSE n.operands

RECURSIVE WalkFrom(_)
\* ast.walk: breadth first, from the queue todo.
WalkFrom(todo) ==
    IF todo = <<>> THEN <<>>
    ELSE <<Head(todo).kind>> \o WalkFrom(Tail(todo) \o ChildNodes(Head(todo)))

\* The kinds of the nodes of ast.walk(tree), in its order.
Walk(tree) == WalkFrom(<<tree>>)

RECURSIVE JoinStr(_, _)
\* sep.join(strs)
JoinStr(strs, sep) ==
    IF strs = <<>> THEN ""
    ELSE IF Len(strs) = 1 THEN strs[1]
    ELSE strs[1] \o sep \o JoinStr(Tail(strs), sep)

RECURSIVE Unparse(_)
\* ast.unparse of an expression.
Unparse(e) ==
    CASE e.kind = "Name" -> e.id
      [] e.kind = "Constant" -> e.id
      [] e.kind = "Compare" ->
            Unparse(e.operands[1]) \o " " \o e.id \o " " \o Unparse(e.operands[2])
      [] e.kind = "Subscript" ->
            Unparse(e.operands[1]) \o "[" \o Unparse(e.operands[2]) \o "]"
      [] e.kind = "Attribute" -> Unparse(e.operands[1]) \o "." \o e.id
      [] e.kind = "Call" ->
            Unparse(e.operands[1]) \o "("
            \o JoinStr([i \in 1..(Len(e.operands) - 1) |-> Unparse(e.operands[i + 1])], ", ")
            \o ")"
      [] OTHER -> ""

\* hasattr(ast, "unparse"): true from Python 3.9 on.
HasUnparse == TRUE

\* ------------------------------------------------------ FlowchartGenerator

\* The value reset() and __init__ give performance_metrics.
InitialMetrics ==
    [execution_time |-> 0, memory_usage |-> 0, complexity |-> "O(1)", operations |-> 0]

\* FlowchartGenerator.__init__: the fields of a new generator.  nodes is the
\* dict in insertion order, one record per key; edges is the list.
NewGenerator ==
    [node_id |-> 0, nodes |-> <<>>, edges |-> <<>>,
     performance_metrics |-> InitialMetrics, code_insights |-> <<>>,
     variables_used |-> {}, functions_defined |-> <<>>]

\* No generator constructed yet.
NoGenerator == [NewGenerator EXCEPT !.node_id = -1]

\* reset() leaving the id counter where it stands.
reset_keeps_counter(self) ==
    [self EXCEPT !.nodes = <<>>, !.edges = <<>>,
                 !.performance_metrics = InitialMetrics, !.code_insights = <<>>,
                 !.variables_used = {}, !.functions_defined = <<>>]

\* FlowchartGenerator.reset
reset(self) ==
    [self EXCEPT !.node_id = 0, !.nodes = <<>>, !.edges = <<>>,
                 !.performance_metrics = InitialMetrics, !.code_insights = <<>>,
                 !.variables_used = {}, !.functions_defined = <<>>]

\* generate_from_code resetting the generator before it parses the code.
parse_failed_after_reset(self) == reset(self)

\* generate_from_code when ast.parse raises: self.reset(), the statement after
\* it in the try block, is not reached and the except clause touches no
\* field.
parse_failed(self) == self

\* d[key] = value on a dict kept in insertion order: a present key keeps its
\* place, a new key goes last.
DictPut(d, key, value) ==
    IF \E i \in 1..Len(d) : d[i].id = key
    THEN [i \in 1..Len(d) |-> IF d[i].id = key THEN value ELSE d[i]]
    ELSE Append(d, value)

\* The id create_node gives its next node: f"node{self.node_id}".
NextNodeId(self) == "node" \o ToString(self.node_id)

\* create_node storing the node under the id after the one it returns.
create_node_stale_key(self, label, node_type, line_no) ==
    [self EXCEPT !.node_id = @ + 1,
                 !.nodes = DictPut(@, "node" \o ToString(self.node_id + 1),
                                   [id |-> "node" \o ToString(self.node_id + 1),
                                    label |-> label, type |-> node_type, line |-> line_no])]

\* create_node forgetting to advance the counter.
create_node_same_id(self, label, node_type, line_no) ==
    [self EXCEPT !.nodes = DictPut(@, NextNodeId(self),
                                   [id |-> NextNodeId(self), label |-> label,
                                    type |-> node_type, line |-> line_no])]

\* FlowchartGenerator.create_node: the generator afterwards (the id returned
\* is NextNodeId of the generator before).
create_node(self, label, node_type, line_no) ==
    [self EXCEPT !.node_id = @ + 1,
                 !.nodes = DictPut(@, NextNodeId(self),
                                   [id |-> NextNodeId(self), label |-> label,
                                    type |-> node_type, line |-> line_no])]

\* FlowchartGenerator.add_edge
add_edge(self, from_node, to_node, label) ==
    [self EXCEPT !.edges = Append(@, [from |-> from_node, to |-> to_node, label |-> label])]

RECURSIVE ComplexityScore(_)
\* The loop of _analyze_code_complexity over the kinds ast.walk yields.  The
\* score is kept in halves (a For or While adds 2, an If adds 1), which is
\* exact: every value the code's float takes is a multiple of 0.5.
ComplexityScore(kinds) ==
    IF kinds = <<>> THEN 0
    ELSE (CASE Head(kinds) = "For" -> 2
            [] Head(kinds) = "While" -> 2
            [] Head(kinds) = "If" -> 1
            [] OTHER -> 0) + ComplexityScore(Tail(kinds))

\* The buckets with their upper ends left out.
ComplexityLabel_strict(score) ==
    IF score = 0 THEN "O(1)"
    ELSE IF score < 2 THEN "O(n)"
    ELSE IF score < 4 THEN "O(n²)"
    ELSE "O(n³+)"

\* The label _analyze_code_complexity gives a score (in halves).
ComplexityLabel(score) ==
    IF score = 0 THEN "O(1)"
    ELSE IF score <= 2 THEN "O(n)"
    ELSE IF score <= 4 THEN "O(n²)"
    ELSE "O(n³+)"

\* FlowchartGenerator._analyze_code_complexity
analyze_code_complexity(self, tree) ==
    [self EXCEPT !.performance_metrics.complexity =
                     ComplexityLabel(ComplexityScore(Walk(tree)))]

\* The count of _gather_code_insights: the Assign, Call and Return nodes.
Operations(kinds) == Len(SelectSeq(kinds, LAMBDA k : k \in {"Assign", "Call", "Return"}))

\* len(lines) above which a large function is reported.
LargeLines == 50
\* len(lines) above which missing error handling is reported.
ErrorHandlingLines == 10

\* FlowchartGenerator._gather_code_insights, text being what the code reads
\* of code.split('\n').
gather_code_insights(self, tree, text) ==
    [self EXCEPT
        !.performance_metrics.operations = Operations(Walk(tree)),
        !.code_insights =
            @ \o (IF text.nlines > LargeLines
                  THEN <<"Consider breaking down large functions">> ELSE <<>>)
              \o (IF ~text.docstrings
                  THEN <<"Add docstrings for better documentation">> ELSE <<>>)
              \o (IF ~text.try_except /\ text.nlines > ErrorHandlingLines
                  THEN <<"Consider adding error handling">> ELSE <<>>)]

\* The line generate_mermaid writes for a node.
NodeLine(node) ==
    IF node.type = "start" THEN "    " \o node.id \o "([" \o node.label \o "])"
    ELSE IF node.type = "end" THEN "    " \o node.id \o "([" \o node.label \o "])"
    ELSE IF node.type = "decision" THEN "    " \o node.id \o "{" \o node.label \o "}"
    ELSE "    " \o node.id \o "[" \o node.label \o "]"

\* Every edge written as a labeled arrow.
EdgeLine_always_labeled(edge) ==
    "    " \o edge.from \o " -->|" \o edge.label \o "| " \o edge.to

\* The line generate_mermaid writes for an edge.
EdgeLine(edge) ==
    IF edge.label # ""
    THEN "    " \o edge.from \o " -->|" \o edge.label \o "| " \o edge.to
    ELSE "    " \o edge.from \o " --> " \o edge.to

\* The lines of generate_mermaid, before they are joined.
MermaidLines(self) ==
    <<"flowchart TD">>
    \o [i \in 1..Len(self.nodes) |-> NodeLine(self.nodes[i])]
    \o [i \in 1..Len(self.edges) |-> EdgeLine(self.edges[i])]

\* The diagram's header carrying the measured execution time.
generate_mermaid_timed(self) ==
    JoinStr(<<"flowchart TD %% " \o ToString(self.performance_metrics.execution_time) \o " ms">>
            \o Tail(MermaidLines(self)), "\n")

\* FlowchartGenerator.generate_mermaid
generate_mermaid(self) == JoinStr(MermaidLines(self), "\n")

\* ------------------------------------------------------------- exceptions

\* The classes an exception of class cls is an instance of.
Bases(cls) ==
    IF cls = "SyntaxError" THEN {"SyntaxError", "Exception", "BaseException"}
    ELSE IF cls = "Exception" THEN {"Exception", "BaseException"}
    ELSE IF cls \in {"HTTPException", "RuntimeError", "KeyError"}
    THEN {cls, "Exception", "BaseException"}
    ELSE {cls, "BaseException"}

\* isinstance(exc, cls): what an except clause tests.
IsInstance(exc, cls) == cls \in Bases(exc.cls)

NoException == [cls |-> "", msg |-> ""]

\* ast.parse on a source the parser rejects.
SyntaxErrorOf(code) == [cls |-> "SyntaxError", msg |-> code.msg]

\* The except clause of generate_from_code: what leaves the function when
\* exc is raised inside its try block.
Reraise(exc) ==
    IF IsInstance(exc, "Exception")
    THEN [cls |-> "Exception", msg |-> "Failed to generate flowchart: " \o exc.msg]
    ELSE exc

\* ------------------------------------------------------------------ state

VARIABLES
    request,       \* request.code of each run
    generator,     \* the FlowchartGenerator of each run
    pc,            \* where each run stands in the endpoint and generate_from_code
    tree,          \* generate_from_code's tree
    current_node,  \* generate_from_code's current_node
    idx,           \* the place of "for stmt in tree.body"
    stack,         \* the frames of the process_statement calls in progress
    outcome,       \* what generate_from_code returned or raised
    response,      \* the endpoint's answer
    calls,         \* history: the process_statement calls that have returned
    debug,         \* the debug endpoint: its request, position and answer
    manager,       \* the ConnectionManager: active_connections, user_sessions
    alive,         \* whether the client of each user's websocket is still there
    task,          \* the websocket endpoint's coroutine of each user
    opened         \* how many websockets have been opened so far

\* The variables of the flowchart endpoint, and the others.
flowchart == <<request, generator, pc, tree, current_node, idx, stack, outcome, response, calls>>
elsewhere == <<debug, manager, alive, task, opened>>

vars == <<flowchart, elsewhere>>

\* The analysis_data dict generate_from_code builds.  variables stands for
\* list(self.variables_used), whose order the code leaves open.
AnalysisData(self) ==
    [nodes |-> self.nodes, performance_metrics |-> self.performance_metrics,
     code_insights |-> self.code_insights, variables |-> self.variables_used,
     functions |-> self.functions_defined]

NoOutcome ==
    [returned |-> FALSE, mermaid_code |-> "", analysis_data |-> AnalysisData(NoGenerator),
     exc |-> NoException]
NoResponse ==
    [status_code |-> 0, detail |-> "", mermaid |-> "", nodes |-> AnalysisData(NoGenerator)]

\* The users of the websocket endpoint: the user_id of its path.
Users == {"a", "b"}

\* An entry of active_connections: the user_id and the websocket, which is
\* known by its number among the websockets the user has opened.
Entry(key, value) == [key |-> key, value |-> value]

\* What CPython leaves in a dict's table where an entry has been deleted.
NoEntry == Entry("", 0)

\* An empty dict as CPython keeps it: the table of its entries in insertion
\* order, deleted ones included.
EmptyDict == <<>>

\* ConnectionManager.__init__.  Of user_sessions the keys are kept.
NewConnectionManager == [active_connections |-> EmptyDict, user_sessions |-> {}]

\* No broadcast made yet.
NoBroadcast == [status |-> "none", missed |-> {}]

\* No iteration of active_connections in progress.
NoIterator == [pos |-> 0, used |-> 0, len |-> 0]

\* A user whose websocket endpoint is not running.  ws numbers the user's
\* websocket, then says where the broadcast in progress was called from,
\* last is the outcome of the broadcast the endpoint made last: whether it
\* returned or raised and the users connected at its end, the excluded one
\* apart, it has sent nothing.
NoTask ==
    [pc |-> "closed", ws |-> 0, it |-> NoIterator, exclude |-> "", then |-> "",
     target |-> NoEntry, sent |-> {}, last |-> NoBroadcast]

\* The module's manager = ConnectionManager(), no websocket opened yet.
NobodyConnected ==
    /\ manager = NewConnectionManager
    /\ alive = [u \in Users |-> FALSE]
    /\ task = [u \in Users |-> NoTask]
    /\ opened = 0

\* No request to the debug endpoint.
NoDebug ==
    [request |-> [action |-> "", current_line |-> NoLine], pc |-> "idle",
     exc |-> [cls |-> "", status_code |-> 0, detail |-> ""],
     response |-> [status_code |-> 0, detail |-> "", success |-> FALSE,
                   current_line |-> NoLine, variables |-> <<>>, output |-> "",
                   finished |-> FALSE]]

\* The flowchart endpoint before any step: the runs with a request of codes
\* to answer, the others idle.
Requests(codes) ==
    /\ request = codes
    /\ generator = [r \in Runs |-> NoGenerator]
    /\ pc = [r \in Runs |-> IF codes[r] # NoSource THEN "request" ELSE "idle"]
    /\ tree = [r \in Runs |-> Module(<<>>)]
    /\ current_node = [r \in Runs |-> ""]
    /\ idx = [r \in Runs |-> 1]
    /\ stack = [r \in Runs |-> <<>>]
    /\ outcome = [r \in Runs |-> NoOutcome]
    /\ response = [r \in Runs |-> NoResponse]
    /\ calls = [r \in Runs |-> <<>>]

\* The state before any step of requests to the flowchart endpoint: the
\* other endpoints have nothing to do.
Begin(codes) ==
    /\ Requests(codes)
    /\ debug = NoDebug
    /\ NobodyConnected

\* The runs in rs each have a request among sources to answer.
Start(rs, sources) ==
    \E code \in [rs -> sources] :
        Begin([r \in Runs |-> IF r \in rs THEN code[r] ELSE NoSource])

\* One request.
Init == Start({1}, Sources)

\* One generator, constructed once, serving every request.
Builder_shared(r) == 1

\* generate_flowchart: generator = FlowchartGenerator() is a local of the
\* call, so the generator a request works on is its own.
Builder(r) == r

\* --------------------------------------------------------------- positions

Top(r) == stack[r][Len(stack[r])]

\* The statement list the innermost loop of run r iterates, and its place
\* in it: tree.body for the driver, stmt.body or stmt.orelse for a frame.
Pending(r) ==
    IF stack[r] = <<>> THEN tree[r].body
    ELSE IF Top(r).phase = "orelse" THEN Top(r).stmt.orelse
    ELSE Top(r).stmt.body

Index(r) == IF stack[r] = <<>> THEN idx[r] ELSE Top(r).i

\* The loop has a next statement: process_statement is about to be called.
Calling(r) == pc[r] = "visit" /\ Index(r) <= Len(Pending(r))

\* The statement and the current node that call passes.
ThisStmt(r) == Pending(r)[Index(r)]

Current(r) ==
    IF stack[r] = <<>> THEN current_node[r]
    ELSE IF Top(r).stmt.kind # "If" THEN Top(r).body_end
    ELSE IF Top(r).phase = "body" THEN Top(r).if_end
    ELSE Top(r).else_end

\* The branch of process_statement's if/elif chain a statement takes.
Branch(stmt) ==
    IF stmt.kind = "Assign" THEN "Assign"
    ELSE IF stmt.kind = "If" THEN "If"
    ELSE IF stmt.kind = "For" THEN "For"
    ELSE IF stmt.kind = "While" THEN "While"
    ELSE IF stmt.kind = "FunctionDef" THEN "FunctionDef"
    ELSE IF stmt.kind = "Return" THEN "Return"
    ELSE IF stmt.kind = "Expr" /\ stmt.expr.kind = "Call" THEN "Call"
    ELSE "Generic"

\* The caller's frames once the call it made has returned node: the loop
\* variable (if_end, else_end or body_end) takes it and the loop moves on.
Resume(stk, node) ==
    IF stk = <<>> THEN stk
    ELSE LET f == stk[Len(stk)]
         IN  [stk EXCEPT ![Len(stk)] =
                 IF f.stmt.kind # "If" THEN [f EXCEPT !.body_end = node, !.i = @ + 1]
                 ELSE IF f.phase = "body" THEN [f EXCEPT !.if_end = node, !.i = @ + 1]
                 ELSE [f EXCEPT !.else_end = node, !.i = @ + 1]]

\* A process_statement call of run r returns node to the caller whose frames
\* are stk, leaving the generator as self; call is its entry in the history.
ReturnNode(r, stk, self, node, call) ==
    /\ generator' = [generator EXCEPT ![Builder(r)] = self]
    /\ stack' = [stack EXCEPT ![r] = Resume(stk, node)]
    /\ current_node' = [current_node EXCEPT ![r] = IF stk = <<>> THEN node ELSE @]
    /\ idx' = [idx EXCEPT ![r] = IF stk = <<>> THEN @ + 1 ELSE @]
    /\ calls' = [calls EXCEPT ![r] = Append(@, call)]
    /\ UNCHANGED <<elsewhere, request, pc, tree, outcome, response>>

\* The history's entry of a call: the statement, the current node passed,
\* the node created first, the branch exits and the node returned.
CallRecord(stmt, cur, node, if_end, else_end, body_end, result) ==
    [stmt |-> stmt, current_node |-> cur, node |-> node, if_end |-> if_end,
     else_end |-> else_end, body_end |-> body_end, result |-> result]

\* A statement without a nested visit: one node, one edge, the node returned.
SimpleCall(r, self) ==
    ReturnNode(r, stack[r], self, NextNodeId(generator[Builder(r)]),
               CallRecord(ThisStmt(r), Current(r), NextNodeId(generator[Builder(r)]),
                          "", "", "", NextNodeId(generator[Builder(r)])))

\* A compound statement is entered: its frame is pushed.
Push(r, self, frame) ==
    /\ generator' = [generator EXCEPT ![Builder(r)] = self]
    /\ stack' = [stack EXCEPT ![r] = Append(@, frame)]
    /\ UNCHANGED <<elsewhere, request, pc, tree, current_node, idx, outcome, response, calls>>

Frame(stmt, cur, node) ==
    [stmt |-> stmt, current_node |-> cur, node |-> node, if_end |-> "",
     else_end |-> "", body_end |-> "", phase |-> "body", i |-> 1]

\* ------------------------------------------------- process_statement

\* [target.id for target in stmt.targets if isinstance(target, ast.Name)]
TargetNames(stmt) ==
    LET names == SelectSeq(stmt.targets, LAMBDA t : t.kind = "Name")
    IN  [i \in 1..Len(names) |-> names[i].id]

\* The Assign branch forgetting to track the variables.
assign_branch_untracked(self, stmt, cur) ==
    add_edge(create_node(self, "Assign: " \o JoinStr(TargetNames(stmt), ", "),
                         "process", stmt.lineno),
             cur, NextNodeId(self), "")

\* The Assign branch: the generator after it.
assign_branch(self, stmt, cur) ==
    LET targets == TargetNames(stmt)
        tracked == [self EXCEPT !.variables_used =
                        @ \cup {targets[i] : i \in 1..Len(targets)}]
        label == "Assign: " \o JoinStr(targets, ", ")
    IN  add_edge(create_node(tracked, label, "process", stmt.lineno),
                 cur, NextNodeId(self), "")

\* The If branch up to the visit of the body: the decision node and its edge.
if_branch(self, stmt, cur) ==
    LET condition == IF HasUnparse THEN Unparse(stmt.expr) ELSE "condition"
    IN  add_edge(create_node(self, "If " \o condition \o "?", "decision", stmt.lineno),
                 cur, NextNodeId(self), "")

\* The else edge labeled "No" whether or not there is an else branch.
ElseLabel_always_no(stmt) == "No"

\* The label of the edge from the else branch's exit into the merge node.
ElseLabel(stmt) == IF stmt.orelse # <<>> THEN "No" ELSE ""

\* The If branch forgetting the edge from the else branch's exit.
if_merge_one_edge(self, stmt, if_end, else_end) ==
    add_edge(create_node(self, "Merge", "process", NoLine), if_end, NextNodeId(self), "Yes")

\* The If branch drawing both edges from the then branch's exit.
if_merge_from_if_end(self, stmt, if_end, else_end) ==
    add_edge(add_edge(create_node(self, "Merge", "process", NoLine),
                      if_end, NextNodeId(self), "Yes"),
             if_end, NextNodeId(self), ElseLabel(stmt))

\* The end of the If branch: the merge node and the two edges into it.
if_merge(self, stmt, if_end, else_end) ==
    LET merged == create_node(self, "Merge", "process", NoLine)
    IN  add_edge(add_edge(merged, if_end, NextNodeId(self), "Yes"),
                 else_end, NextNodeId(self), ElseLabel(stmt))

\* The For branch up to the visit of the body.
for_branch(self, stmt, cur) ==
    LET target == IF stmt.target.kind = "Name" THEN stmt.target.id ELSE "item"
        iter_expr == IF HasUnparse THEN Unparse(stmt.expr) ELSE "iterable"
    IN  add_edge(create_node(self, "For " \o target \o " in " \o iter_expr,
                             "decision", stmt.lineno),
                 cur, NextNodeId(self), "")

\* The While branch forgetting the edge from the current node.
while_branch_unlinked(self, stmt, cur) ==
    LET condition == IF HasUnparse THEN Unparse(stmt.expr) ELSE "condition"
    IN  create_node(self, "While " \o condition \o "?", "decision", stmt.lineno)

\* The While branch up to the visit of the body.
while_branch(self, stmt, cur) ==
    LET condition == IF HasUnparse THEN Unparse(stmt.expr) ELSE "condition"
    IN  add_edge(create_node(self, "While " \o condition \o "?", "decision", stmt.lineno),
                 cur, NextNodeId(self), "")

\* The loop's edge back drawn without its label.
loop_back_unlabeled(self, body_end, loop_node) == add_edge(self, body_end, loop_node, "")

\* The loop's edge back drawn the wrong way round.
loop_back_reversed(self, body_end, loop_node) == add_edge(self, loop_node, body_end, "Continue")

\* The end of the For and While branches: the edge back to the loop node.
loop_back(self, body_end, loop_node) == add_edge(self, body_end, loop_node, "Continue")

\* The For and While branches returning the exit of the body.
loop_return_body_end(loop_node, body_end) == body_end

\* return loop_node: what the For and While branches return.
loop_return(loop_node, body_end) == loop_node

\* The FunctionDef branch forgetting to list the function.
functiondef_branch_unlisted(self, stmt, cur) ==
    add_edge(create_node(self, "Function: " \o stmt.name, "process", stmt.lineno),
             cur, NextNodeId(self), "")

\* The FunctionDef branch.
functiondef_branch(self, stmt, cur) ==
    LET func_info == [name |-> stmt.name, args |-> stmt.args, line |-> stmt.lineno]
        listed == [self EXCEPT !.functions_defined = Append(@, func_info)]
    IN  add_edge(create_node(listed, "Function: " \o stmt.name, "process", stmt.lineno),
                 cur, NextNodeId(self), "")

\* The Return branch forgetting the edge from the current node.
return_branch_unlinked(self, stmt, cur) ==
    create_node(self, "Return", "process", stmt.lineno)

\* The Return branch.
return_branch(self, stmt, cur) ==
    add_edge(create_node(self, "Return", "process", stmt.lineno), cur, NextNodeId(self), "")

\* The branch of an expression statement that is a call.
call_branch(self, stmt, cur) ==
    LET func == stmt.expr.operands[1]
        func_name == IF func.kind = "Name" THEN func.id ELSE "function"
    IN  add_edge(create_node(self, "Call: " \o func_name \o "()", "process", stmt.lineno),
                 cur, NextNodeId(self), "")

\* type(stmt).__name__
TypeName(stmt) == stmt.kind

\* The generic node labeled with the bare kind name.
GenericLabel_bare(stmt) == TypeName(stmt)

\* The label of the generic branch's node.
GenericLabel(stmt) == "Statement: " \o TypeName(stmt)

\* The generic branch: every other statement.
generic_branch(self, stmt, cur) ==
    add_edge(create_node(self, GenericLabel(stmt), "process", stmt.lineno),
             cur, NextNodeId(self), "")

VisitAssign(r) ==
    /\ Calling(r) /\ Branch(ThisStmt(r)) = "Assign"
    /\ SimpleCall(r, assign_branch(generator[Builder(r)], ThisStmt(r), Current(r)))

VisitFunctionDef(r) ==
    /\ Calling(r) /\ Branch(ThisStmt(r)) = "FunctionDef"
    /\ SimpleCall(r, functiondef_branch(generator[Builder(r)], ThisStmt(r), Current(r)))

VisitReturn(r) ==
    /\ Calling(r) /\ Branch(ThisStmt(r)) = "Return"
    /\ SimpleCall(r, return_branch(generator[Builder(r)], ThisStmt(r), Current(r)))

VisitCall(r) ==
    /\ Calling(r) /\ Branch(ThisStmt(r)) = "Call"
    /\ SimpleCall(r, call_branch(generator[Builder(r)], ThisStmt(r), Current(r)))

VisitGeneric(r) ==
    /\ Calling(r) /\ Branch(ThisStmt(r)) = "Generic"
    /\ SimpleCall(r, generic_branch(generator[Builder(r)], ThisStmt(r), Current(r)))

\* if: the decision node; if_end starts at it and the body is visited.
VisitIf(r) ==
    /\ Calling(r) /\ Branch(ThisStmt(r)) = "If"
    /\ Push(r, if_branch(generator[Builder(r)], ThisStmt(r), Current(r)),
            [Frame(ThisStmt(r), Current(r), NextNodeId(generator[Builder(r)]))
                EXCEPT !.if_end = NextNodeId(generator[Builder(r)])])

\* if: the body is done; else_end starts at the decision node and the else
\* branch, empty or not, is visited.
IfElse(r) ==
    /\ pc[r] = "visit" /\ stack[r] # <<>>
    /\ Top(r).stmt.kind = "If" /\ Top(r).phase = "body"
    /\ Top(r).i > Len(Top(r).stmt.body)
    /\ stack' = [stack EXCEPT ![r][Len(stack[r])] =
                    [@ EXCEPT !.else_end = Top(r).node, !.phase = "orelse", !.i = 1]]
    /\ UNCHANGED <<elsewhere, request, generator, pc, tree, current_node, idx, outcome, response, calls>>

\* if: both branches are done; the merge node, its edges, and the return.
IfMerge(r) ==
    /\ pc[r] = "visit" /\ stack[r] # <<>>
    /\ Top(r).stmt.kind = "If" /\ Top(r).phase = "orelse"
    /\ Top(r).i > Len(Top(r).stmt.orelse)
    /\ LET f == Top(r)
           merge_node == NextNodeId(generator[Builder(r)])
       IN  ReturnNode(r, SubSeq(stack[r], 1, Len(stack[r]) - 1),
                      if_merge(generator[Builder(r)], f.stmt, f.if_end, f.else_end), merge_node,
                      CallRecord(f.stmt, f.current_node, f.node, f.if_end, f.else_end,
                                 "", merge_node))

\* for: the loop node; body_end starts at it and the body is visited.
VisitFor(r) ==
    /\ Calling(r) /\ Branch(ThisStmt(r)) = "For"
    /\ Push(r, for_branch(generator[Builder(r)], ThisStmt(r), Current(r)),
            [Frame(ThisStmt(r), Current(r), NextNodeId(generator[Builder(r)]))
                EXCEPT !.body_end = NextNodeId(generator[Builder(r)])])

\* while: the loop node; body_end starts at it and the body is visited.
VisitWhile(r) ==
    /\ Calling(r) /\ Branch(ThisStmt(r)) = "While"
    /\ Push(r, while_branch(generator[Builder(r)], ThisStmt(r), Current(r)),
            [Frame(ThisStmt(r), Current(r), NextNodeId(generator[Builder(r)]))
                EXCEPT !.body_end = NextNodeId(generator[Builder(r)])])

\* for, while: the body is done; the edge back, and the loop node returned.
LoopBack(r) ==
    /\ pc[r] = "visit" /\ stack[r] # <<>>
    /\ Top(r).stmt.kind \in {"For", "While"}
    /\ Top(r).i > Len(Top(r).stmt.body)
    /\ LET f == Top(r)
       IN  ReturnNode(r, SubSeq(stack[r], 1, Len(stack[r]) - 1),
                      loop_back(generator[Builder(r)], f.body_end, f.node),
                      loop_return(f.node, f.body_end),
                      CallRecord(f.stmt, f.current_node, f.node, "", "", f.body_end,
                                 loop_return(f.node, f.body_end)))

\* ------------------------------------------- generate_from_code, endpoint

\* The position of run r moves to next; only the generator changes with it.
Step(r, next, self) ==
    /\ pc' = [pc EXCEPT ![r] = next]
    /\ generator' = [generator EXCEPT ![Builder(r)] = self]
    /\ UNCHANGED <<elsewhere, request, tree, current_node, idx, stack, outcome, response, calls>>

\* generate_flowchart: generator = FlowchartGenerator()
Construct(r) ==
    /\ pc[r] = "request"
    /\ Step(r, "parse", NewGenerator)

\* tree = ast.parse(code), the parser accepting the code.
Parse(r) ==
    /\ pc[r] = "parse" /\ request[r].ok
    /\ pc' = [pc EXCEPT ![r] = "reset"]
    /\ tree' = [tree EXCEPT ![r] = Module(request[r].body)]
    /\ UNCHANGED <<elsewhere, request, generator, current_node, idx, stack, outcome, response, calls>>

\* tree = ast.parse(code), the parser rejecting the code: the SyntaxError
\* goes through the except clause and leaves generate_from_code.
ParseError(r) ==
    /\ pc[r] = "parse" /\ ~request[r].ok
    /\ pc' = [pc EXCEPT ![r] = "raised"]
    /\ generator' = [generator EXCEPT ![Builder(r)] = parse_failed(@)]
    /\ outcome' = [outcome EXCEPT ![r].exc = Reraise(SyntaxErrorOf(request[r]))]
    /\ UNCHANGED <<elsewhere, request, tree, current_node, idx, stack, response, calls>>

\* self.reset()
Reset(r) ==
    /\ pc[r] = "reset"
    /\ Step(r, "analyze", reset(generator[Builder(r)]))

\* self._analyze_code_complexity(tree)
Analyze(r) ==
    /\ pc[r] = "analyze"
    /\ Step(r, "insights", analyze_code_complexity(generator[Builder(r)], tree[r]))

\* self._gather_code_insights(tree, code)
Insights(r) ==
    /\ pc[r] = "insights"
    /\ Step(r, "start", gather_code_insights(generator[Builder(r)], tree[r], request[r].text))

\* start_node = self.create_node("START", "start"); current_node = start_node
StartNode(r) ==
    /\ pc[r] = "start"
    /\ pc' = [pc EXCEPT ![r] = "visit"]
    /\ generator' = [generator EXCEPT ![Builder(r)] = create_node(@, "START", "start", NoLine)]
    /\ current_node' = [current_node EXCEPT ![r] = NextNodeId(generator[Builder(r)])]
    /\ idx' = [idx EXCEPT ![r] = 1]
    /\ UNCHANGED <<elsewhere, request, tree, stack, outcome, response, calls>>

\* The driver drawing the edge into the END node from the START node.
end_node_from_start(self, cur) ==
    add_edge(create_node(self, "END", "end", NoLine), self.nodes[1].id, NextNodeId(self), "")

\* The driver forgetting the edge into the END node.
end_node_no_edge(self, cur) == create_node(self, "END", "end", NoLine)

\* The generator once the fold over tree.body is over: the END node and the
\* edge into it.
end_node(self, cur) ==
    add_edge(create_node(self, "END", "end", NoLine), cur, NextNodeId(self), "")

EndNode(r) ==
    /\ pc[r] = "visit" /\ stack[r] = <<>> /\ idx[r] > Len(tree[r].body)
    /\ Step(r, "time", end_node(generator[Builder(r)], current_node[r]))

\* performance_metrics['execution_time'] = round((time.time() - start_time) * 1000, 2)
Time(r) ==
    /\ pc[r] = "time"
    /\ \E t \in 0..MaxTime :
          Step(r, "mermaid", [generator[Builder(r)] EXCEPT !.performance_metrics.execution_time = t])

\* mermaid_code = self.generate_mermaid(); return mermaid_code, analysis_data
Return(r) ==
    /\ pc[r] = "mermaid"
    /\ pc' = [pc EXCEPT ![r] = "returned"]
    /\ outcome' = [outcome EXCEPT ![r] =
                      [returned |-> TRUE, mermaid_code |-> generate_mermaid(generator[Builder(r)]),
                       analysis_data |-> AnalysisData(generator[Builder(r)]), exc |-> NoException]]
    /\ UNCHANGED <<elsewhere, request, generator, tree, current_node, idx, stack, response, calls>>

\* The status the endpoint's except clauses give an exception.
StatusOf(exc) == IF IsInstance(exc, "SyntaxError") THEN 400 ELSE 500

\* The detail the endpoint's except clauses give an exception.
DetailOf(exc) ==
    IF IsInstance(exc, "SyntaxError") THEN "Syntax error in Python code: " \o exc.msg
    ELSE "Error generating flowchart: " \o exc.msg

\* The status of a response that is no HTTPException.
HttpOk == 200

\* generate_flowchart: return FlowchartResponse(mermaid=mermaid_code, nodes=nodes)
Respond(r) ==
    /\ pc[r] = "returned"
    /\ pc' = [pc EXCEPT ![r] = "done"]
    /\ response' = [response EXCEPT ![r] =
                       [status_code |-> HttpOk, detail |-> "",
                        mermaid |-> outcome[r].mermaid_code,
                        nodes |-> outcome[r].analysis_data]]
    /\ UNCHANGED <<elsewhere, request, generator, tree, current_node, idx, stack, outcome, calls>>

\* generate_flowchart: the except clauses, raising the HTTPException.
RespondError(r) ==
    /\ pc[r] = "raised"
    /\ pc' = [pc EXCEPT ![r] = "done"]
    /\ response' = [response EXCEPT ![r] =
                       [@ EXCEPT !.status_code = StatusOf(outcome[r].exc),
                                 !.detail = DetailOf(outcome[r].exc)]]
    /\ UNCHANGED <<elsewhere, request, generator, tree, current_node, idx, stack, outcome, calls>>

\* One step of run r.
Run(r) ==
    \/ Construct(r)
    \/ Parse(r)
    \/ ParseError(r)
    \/ Reset(r)
    \/ Analyze(r)
    \/ Insights(r)
    \/ StartNode(r)
    \/ VisitAssign(r)
    \/ VisitIf(r)
    \/ IfElse(r)
    \/ IfMerge(r)
    \/ VisitFor(r)
    \/ VisitWhile(r)
    \/ LoopBack(r)
    \/ VisitFunctionDef(r)
    \/ VisitReturn(r)
    \/ VisitCall(r)
    \/ VisitGeneric(r)
    \/ EndNode(r)
    \/ Time(r)
    \/ Return(r)
    \/ Respond(r)
    \/ RespondError(r)

Next == Run(1)

\* One request, from its arrival to its answer.
Spec == Init /\ [][Next]_vars

\* Two requests with the same code, their steps interleaved in every way.
InitTwice ==
    /\ Start(Runs, SourcesOf(MaxStmtsTwice, AllLeaves,
                              {[nlines |-> 4, docstrings |-> FALSE, try_except |-> FALSE]}))
    /\ request[1] = request[2]

NextTwice == \E r \in Runs : Run(r)

SpecTwice == InitTwice /\ [][NextTwice]_vars

\* The complexity estimate alone, on deeper inputs whose only simple
\* statement is pass: a request up to the end of _analyze_code_complexity.
InitAnalysis ==
    Start({1}, SourcesOf(MaxStmtsAnalysis, {"pass"},
                         {[nlines |-> 4, docstrings |-> FALSE, try_except |-> FALSE]}))

NextAnalysis ==
    \/ Construct(1)
    \/ Parse(1)
    \/ ParseError(1)
    \/ Reset(1)
    \/ Analyze(1)

SpecAnalysis == InitAnalysis /\ [][NextAnalysis]_vars

\* A caller that keeps its generator calls generate_from_code again, with
\* another code, once the call before has returned or raised.  The calls
\* that went before are on sample requests, any number of them.
CallAgain(r) ==
    /\ pc[r] \in {"returned", "raised"}
    /\ request[r] \in SampleSources
    /\ \E code \in SourcesOf(MaxStmtsReuse, AllLeaves,
                               {[nlines |-> 4, docstrings |-> FALSE, try_except |-> FALSE]})
                     \cup SampleSources :
          request' = [request EXCEPT ![r] = code]
    /\ pc' = [pc EXCEPT ![r] = "parse"]
    /\ tree' = [tree EXCEPT ![r] = Module(<<>>)]
    /\ current_node' = [current_node EXCEPT ![r] = ""]
    /\ idx' = [idx EXCEPT ![r] = 1]
    /\ outcome' = [outcome EXCEPT ![r] = NoOutcome]
    /\ calls' = [calls EXCEPT ![r] = <<>>]
    /\ UNCHANGED <<elsewhere, generator, stack, response>>

\* One generator serving one call after another, the first on a sample
\* request.
InitReuse == Start({1}, SampleSources)

NextReuse == Run(1) \/ CallAgain(1)

SpecReuse == InitReuse /\ [][NextReuse]_vars

\* Two requests with codes of their own, the second a sample request, their
\* steps interleaved in every way.  One simple statement for each branch of
\* process_statement is enough here.
InitPair ==
    \E code \in SourcesOf(MaxStmtsPair, {"assign", "return", "print", "pass"},
                           {[nlines |-> 4, docstrings |-> FALSE, try_except |-> FALSE]}),
       other \in SampleSources :
        Begin([r \in Runs |-> IF r = 1 THEN code ELSE other])

NextPair == \E r \in Runs : Run(r)

SpecPair == InitPair /\ [][NextPair]_vars

\* ------------------------------------------------------------ debug_code

\* DebugRequest.action: the three actions the endpoint knows, and others.
DebugActions == {"start", "step", "stop", "pause", ""}

\* raise HTTPException(status_code=..., detail=...)
HTTPException(status_code, detail) ==
    [cls |-> "HTTPException", status_code |-> status_code, detail |-> detail]

\* str(e) of an HTTPException built with keyword arguments: empty where the
\* class defines no __str__, status and detail where it does.
StrOf(exc) == {"", ToString(exc.status_code) \o ": " \o exc.detail}

\* A DebugResponse returned: the framework answers 200 with it.
DebugResponse(success, current_line, variables, output, finished) ==
    [status_code |-> HttpOk, detail |-> "", success |-> success,
     current_line |-> current_line, variables |-> variables, output |-> output,
     finished |-> finished]

\* The endpoint returns a DebugResponse.
DebugReturn(resp) == debug' = [debug EXCEPT !.pc = "done", !.response = resp]

\* if request.action == "start"
DebugStart ==
    /\ debug.pc = "request" /\ debug.request.action = "start"
    /\ DebugReturn(DebugResponse(TRUE, 1, <<>>, "Debug session started", FALSE))
    /\ UNCHANGED <<flowchart, manager, alive, task, opened>>

\* elif request.action == "step"; None stands for the mock result not yet
\* there.
DebugStep ==
    /\ debug.pc = "request" /\ debug.request.action = "step"
    /\ LET next_line == (IF debug.request.current_line # 0
                         THEN debug.request.current_line ELSE 1) + 1
           mock_variables == <<<<"n", "5">>,
                               <<"result", IF next_line > 3 THEN "1" ELSE "None">>>>
       IN  DebugReturn(DebugResponse(TRUE, next_line, mock_variables,
                                     "Executing line " \o ToString(next_line),
                                     next_line > 10))
    /\ UNCHANGED <<flowchart, manager, alive, task, opened>>

\* elif request.action == "stop"
DebugStop ==
    /\ debug.pc = "request" /\ debug.request.action = "stop"
    /\ DebugReturn(DebugResponse(TRUE, NoLine, <<>>, "Debug session stopped", TRUE))
    /\ UNCHANGED <<flowchart, manager, alive, task, opened>>

\* else: raise HTTPException(status_code=400, ...), inside the try block.
DebugUnknown ==
    /\ debug.pc = "request" /\ debug.request.action \notin {"start", "step", "stop"}
    /\ debug' = [debug EXCEPT
                    !.pc = "try",
                    !.exc = HTTPException(400, "Unknown debug action: "
                                                   \o debug.request.action)]
    /\ UNCHANGED <<flowchart, manager, alive, task, opened>>

\* except Exception as e: raise HTTPException(status_code=500, ...), for
\* whatever was raised inside the try block.
DebugExcept ==
    /\ debug.pc = "try" /\ IsInstance(debug.exc, "Exception")
    /\ \E str \in StrOf(debug.exc) :
          debug' = [debug EXCEPT !.pc = "raised",
                                 !.exc = HTTPException(500, "Debug error: " \o str)]
    /\ UNCHANGED <<flowchart, manager, alive, task, opened>>

\* The HTTPException that leaves the endpoint is the answer.
DebugRaise ==
    /\ debug.pc = "raised"
    /\ debug' = [debug EXCEPT !.pc = "done",
                              !.response.status_code = debug.exc.status_code,
                              !.response.detail = debug.exc.detail]
    /\ UNCHANGED <<flowchart, manager, alive, task, opened>>

\* One request to the debug endpoint.
InitDebug ==
    /\ Requests([r \in Runs |-> NoSource])
    /\ NobodyConnected
    /\ \E action \in DebugActions, current_line \in 0..MaxDebugLine :
          debug = [NoDebug EXCEPT !.pc = "request",
                                  !.request = [action |-> action,
                                               current_line |-> current_line]]

NextDebug ==
    \/ DebugStart
    \/ DebugStep
    \/ DebugStop
    \/ DebugUnknown
    \/ DebugExcept
    \/ DebugRaise

SpecDebug == InitDebug /\ [][NextDebug]_vars

\* ------------------------------------------------------ ConnectionManager

\* Most websockets opened, over all users.  The table of a dict has room
\* for five entries before CPython rebuilds it, and no more than that many
\* are opened here: the table of active_connections only ever grows at its
\* end.
MaxOpens == 4

\* The keys of a dict.
DictKeys(d) == {d[i].key : i \in DOMAIN d} \ {""}

\* len(d): ma_used.
DictUsed(d) == Cardinality(DictKeys(d))

\* d[key] = value: the entry of a present key is updated where it is, a new
\* key is entered after every entry of the table.
DictSet(d, key, value) ==
    IF key \in DictKeys(d)
    THEN [i \in DOMAIN d |-> IF d[i].key = key THEN Entry(key, value) ELSE d[i]]
    ELSE Append(d, Entry(key, value))

\* del d[key]: the entry is emptied, the table keeps its place.
DictDel(d, key) == [i \in DOMAIN d |-> IF d[i].key = key THEN NoEntry ELSE d[i]]

\* iter(d.items()): the iterator remembers the size of the dict.
DictIter(d) == [pos |-> 0, used |-> DictUsed(d), len |-> DictUsed(d)]

\* next(it) on the items of d (dictiter_iternextitem): RuntimeError when the
\* dict is of another size than it was, StopIteration at the end of the
\* table, RuntimeError when the iterator has given as many items as the dict
\* had, the next entry that is not deleted otherwise.
DictNext(d, it) ==
    LET rest == {i \in DOMAIN d : i > it.pos /\ d[i] # NoEntry}
        i == CHOOSE j \in rest : \A k \in rest : j <= k
    IN  IF it.used # DictUsed(d)
        THEN [kind |-> "raise", it |-> NoIterator, item |-> NoEntry,
              msg |-> "dictionary changed size during iteration"]
        ELSE IF rest = {}
        THEN [kind |-> "stop", it |-> NoIterator, item |-> NoEntry, msg |-> ""]
        ELSE IF it.len = 0
        THEN [kind |-> "raise", it |-> NoIterator, item |-> NoEntry,
              msg |-> "dictionary keys changed during iteration"]
        ELSE [kind |-> "item", it |-> [it EXCEPT !.pos = i, !.len = @ - 1],
              item |-> d[i], msg |-> ""]

\* ConnectionManager.disconnect dropping the connection alone.
disconnect_keeps_session(self, user_id) ==
    [self EXCEPT !.active_connections = DictDel(@, user_id)]

\* ConnectionManager.disconnect
disconnect(self, user_id) ==
    [self EXCEPT !.active_connections = DictDel(@, user_id),
                 !.user_sessions = @ \ {user_id}]

\* ConnectionManager.connect between websocket.accept() and
\* broadcast_user_list(): the two dicts get the user.  The route always has
\* a user_id, so that none is made up.
register(self, websocket, user_id) ==
    [self EXCEPT !.active_connections = DictSet(@, user_id, websocket),
                 !.user_sessions = @ \cup {user_id}]

\* "for user_id, websocket in self.active_connections.items()" of broadcast
\* from the iterator's next item to the item whose send is awaited: the
\* excluded user is passed over.
RECURSIVE NextSend(_, _, _)
NextSend(d, it, exclude_user) ==
    LET n == DictNext(d, it)
    IN  IF n.kind = "item" /\ exclude_user # "" /\ n.item.key = exclude_user
        THEN NextSend(d, n.it, exclude_user)
        ELSE n

\* ----------------------------------------------------- websocket_endpoint

\* Where an endpoint stands while its websocket is accepted and open.
Live == {"send", "welcome", "receive"}

\* message.get('type') of the messages a client sends, and a text that is
\* no JSON.
MessageTypes ==
    {"cursor_move", "code_change", "execution_state", "chat_message", "ping", "not json"}

\* Whether websocket.send_text returns rather than raises: the websocket is
\* the one its user's endpoint is serving and the connection is not broken.
CanSend(entry) ==
    /\ alive[entry.key]
    /\ task[entry.key].ws = entry.value
    /\ task[entry.key].pc \in Live

\* The endpoint of user_id where the broadcast it awaited has returned or
\* raised (status): the caller goes on to its next await or to its end.
\* After connect the welcome message reads user_sessions[connected_user_id]
\* and send_personal_message sends if the user is among active_connections;
\* in the receive loop "except Exception" disconnects the user; whatever
\* connect or the handler of WebSocketDisconnect raises leaves the endpoint.
AfterBroadcast(user_id, self, t, status) ==
    LET done == [t EXCEPT !.it = NoIterator, !.target = NoEntry, !.sent = {},
                          !.exclude = "", !.then = "",
                          !.last = [status |-> status,
                                    missed |-> (DictKeys(self.active_connections)
                                                \ {t.exclude}) \ t.sent]]
    IN  IF t.then = "connect"
        THEN IF status = "raised"
             THEN [manager |-> self, task |-> [done EXCEPT !.pc = "failed"]]
             ELSE IF user_id \notin self.user_sessions
             THEN [manager |-> disconnect(self, user_id),
                   task |-> [done EXCEPT !.pc = "ended"]]
             ELSE IF user_id \in DictKeys(self.active_connections)
             THEN [manager |-> self, task |-> [done EXCEPT !.pc = "welcome"]]
             ELSE [manager |-> self, task |-> [done EXCEPT !.pc = "receive"]]
        ELSE IF t.then = "loop"
        THEN IF status = "raised"
             THEN [manager |-> disconnect(self, user_id),
                   task |-> [done EXCEPT !.pc = "ended"]]
             ELSE [manager |-> self, task |-> [done EXCEPT !.pc = "receive"]]
        ELSE [manager |-> self,
              task |-> [done EXCEPT !.pc = IF status = "raised" THEN "failed"
                                           ELSE "ended"]]

\* The for loop of broadcast from "next item" on, as far as the endpoint of
\* user_id runs without waiting: to the next send_text, or out of broadcast.
Loop(user_id, self, t, it) ==
    LET n == NextSend(self.active_connections, it, t.exclude)
    IN  IF n.kind = "item"
        THEN [manager |-> self,
              task |-> [t EXCEPT !.pc = "send", !.it = n.it, !.target = n.item]]
        ELSE AfterBroadcast(user_id, self, t,
                            IF n.kind = "stop" THEN "returned" ELSE "raised")

\* ConnectionManager.broadcast called by the endpoint of user_id, which goes
\* on at then when it is over.
broadcast(user_id, self, t, exclude_user, then) ==
    Loop(user_id, self, [t EXCEPT !.exclude = exclude_user, !.then = then, !.sent = {}],
         DictIter(self.active_connections))

\* ConnectionManager.broadcast_user_list
broadcast_user_list(user_id, self, t, then) == broadcast(user_id, self, t, "", then)

\* The handler of WebSocketDisconnect.
on_disconnect(user_id, self, t) ==
    broadcast_user_list(user_id, disconnect(self, user_id), t, "leave")

\* The handler of any other exception.
on_exception(user_id, self, t) ==
    [manager |-> disconnect(self, user_id), task |-> [t EXCEPT !.pc = "ended"]]

\* The endpoint of user_id takes the manager and itself to w.
Becomes(user_id, w) ==
    /\ manager' = w.manager
    /\ task' = [task EXCEPT ![user_id] = w.task]

\* A client opens a websocket as user_id, who has none open: the endpoint
\* awaits websocket.accept().
OpenWebSocket(user_id) ==
    /\ task[user_id].pc \in {"closed", "ended", "failed"}
    /\ opened < MaxOpens
    /\ opened' = opened + 1
    /\ alive' = [alive EXCEPT ![user_id] = TRUE]
    /\ task' = [task EXCEPT ![user_id] = [NoTask EXCEPT !.pc = "accept",
                                                        !.ws = task[user_id].ws + 1]]
    /\ UNCHANGED <<flowchart, debug, manager>>

\* ConnectionManager.connect after websocket.accept().
Connect(user_id) ==
    /\ task[user_id].pc = "accept"
    /\ Becomes(user_id,
               broadcast_user_list(user_id,
                                   register(manager, task[user_id].ws, user_id),
                                   task[user_id], "connect"))
    /\ UNCHANGED <<flowchart, debug, alive, opened>>

\* broadcast after "await websocket.send_text(...)": the text is sent, or
\* the bare except disconnects the user of the websocket; then the loop goes
\* on.
Sent(user_id) ==
    LET t == task[user_id]
    IN  /\ t.pc = "send"
        /\ IF CanSend(t.target)
           THEN Becomes(user_id, Loop(user_id, manager,
                                      [t EXCEPT !.sent = @ \cup {t.target.key}], t.it))
           ELSE Becomes(user_id, Loop(user_id, disconnect(manager, t.target.key),
                                      t, t.it))
        /\ UNCHANGED <<flowchart, debug, alive, opened>>

\* After the welcome message's send_text: the receive loop, or the handler
\* of what a broken connection raised, WebSocketDisconnect or another
\* exception as the framework has it.
Welcomed(user_id) ==
    LET t == task[user_id]
    IN  /\ t.pc = "welcome"
        /\ IF alive[user_id]
           THEN Becomes(user_id, [manager |-> manager,
                                  task |-> [t EXCEPT !.pc = "receive"]])
           ELSE \/ Becomes(user_id, on_disconnect(user_id, manager, t))
                \/ Becomes(user_id, on_exception(user_id, manager, t))
        /\ UNCHANGED <<flowchart, debug, alive, opened>>

\* websocket.receive_text() returns a message of message_type and the
\* endpoint handles it.
Receive(user_id, message_type) ==
    LET t == task[user_id]
        known == user_id \in manager.user_sessions
    IN  /\ t.pc = "receive" /\ alive[user_id]
        /\ IF message_type = "not json"
              \/ (message_type = "chat_message" /\ ~known)
           THEN Becomes(user_id, on_exception(user_id, manager, t))
           ELSE IF message_type \in {"code_change", "execution_state", "chat_message"}
                   \/ (message_type = "cursor_move" /\ known)
           THEN Becomes(user_id, broadcast(user_id, manager, t, user_id, "loop"))
           ELSE UNCHANGED <<manager, task>>
        /\ UNCHANGED <<flowchart, debug, alive, opened>>

\* websocket.receive_text() raises WebSocketDisconnect: the client is gone.
ReceiveDisconnect(user_id) ==
    /\ task[user_id].pc = "receive" /\ ~alive[user_id]
    /\ Becomes(user_id, on_disconnect(user_id, manager, task[user_id]))
    /\ UNCHANGED <<flowchart, debug, alive, opened>>

\* The connection of an accepted websocket breaks or its client closes it.
Drop(user_id) ==
    /\ alive[user_id] /\ task[user_id].pc \in Live
    /\ alive' = [alive EXCEPT ![user_id] = FALSE]
    /\ UNCHANGED <<flowchart, debug, manager, task, opened>>

\* The websocket endpoint alone, its coroutines interleaved at their awaits.
InitSockets ==
    /\ Requests([r \in Runs |-> NoSource])
    /\ debug = NoDebug
    /\ NobodyConnected

NextSockets ==
    \E user_id \in Users :
        \/ OpenWebSocket(user_id)
        \/ Connect(user_id)
        \/ Sent(user_id)
        \/ Welcomed(user_id)
        \/ \E message_type \in MessageTypes : Receive(user_id, message_type)
        \/ ReceiveDisconnect(user_id)
        \/ Drop(user_id)

SpecSockets == InitSockets /\ [][NextSockets]_vars

\* ------------------------------------------- generate_from_code as a whole

RECURSIVE process_statement(_, _, _)
RECURSIVE process_statements(_, _, _)

\* for s in stmts: node = self.process_statement(s, node) -- the loop of the
\* driver and of the If, For and While branches: the generator afterwards and
\* the node the last call returned (cur when stmts is empty).
process_statements(self, stmts, cur) ==
    IF stmts = <<>> THEN [self |-> self, node |-> cur]
    ELSE LET first == process_statement(self, Head(stmts), cur)
         IN  process_statements(first.self, Tail(stmts), first.node)

\* FlowchartGenerator.process_statement, from its call to its return: the
\* generator afterwards and the node returned.
process_statement(self, stmt, cur) ==
    LET node == NextNodeId(self)
        branch == Branch(stmt)
    IN  CASE branch = "Assign" -> [self |-> assign_branch(self, stmt, cur), node |-> node]
          [] branch = "If" ->
                LET body == process_statements(if_branch(self, stmt, cur), stmt.body, node)
                    orelse == process_statements(body.self, stmt.orelse, node)
                IN  [self |-> if_merge(orelse.self, stmt, body.node, orelse.node),
                     node |-> NextNodeId(orelse.self)]
          [] branch = "For" ->
                LET body == process_statements(for_branch(self, stmt, cur), stmt.body, node)
                IN  [self |-> loop_back(body.self, body.node, node),
                     node |-> loop_return(node, body.node)]
          [] branch = "While" ->
                LET body == process_statements(while_branch(self, stmt, cur), stmt.body, node)
                IN  [self |-> loop_back(body.self, body.node, node),
                     node |-> loop_return(node, body.node)]
          [] branch = "FunctionDef" ->
                [self |-> functiondef_branch(self, stmt, cur), node |-> node]
          [] branch = "Return" -> [self |-> return_branch(self, stmt, cur), node |-> node]
          [] branch = "Call" -> [self |-> call_branch(self, stmt, cur), node |-> node]
          [] OTHER -> [self |-> generic_branch(self, stmt, cur), node |-> node]

\* The generator FlowchartGenerator() once its generate_from_code(code) has
\* gone through, the code being one the parser accepts.
FreshlyCompiled(code, t) ==
    LET module == Module(code.body)
        ready == gather_code_insights(
                     analyze_code_complexity(reset(NewGenerator), module),
                     module, code.text)
        started == create_node(ready, "START", "start", NoLine)
        visited == process_statements(started, module.body, NextNodeId(ready))
        ended == end_node(visited.self, visited.node)
    IN  [ended EXCEPT !.performance_metrics.execution_time = t]

\* FlowchartGenerator().generate_from_code(code): what a generator just
\* constructed returns or raises, the execution time it measures being t.
generate_from_code(code, t) ==
    IF ~code.ok THEN [NoOutcome EXCEPT !.exc = Reraise(SyntaxErrorOf(code))]
    ELSE [returned |-> TRUE, mermaid_code |-> generate_mermaid(FreshlyCompiled(code, t)),
          analysis_data |-> AnalysisData(FreshlyCompiled(code, t)), exc |-> NoException]

\* ----------------------------------------------------- reading the graph

\* generate_from_code has returned its graph to the endpoint.
Compiled(r) == pc[r] = "returned"

Graph(r) == generator[Builder(r)]

NodeIds(g) == {g.nodes[i].id : i \in 1..Len(g.nodes)}

NodeOf(g, id) == g.nodes[CHOOSE i \in 1..Len(g.nodes) : g.nodes[i].id = id]

\* The place of a node in creation order (0: no such node).
Place(g, id) ==
    IF id \in NodeIds(g) THEN CHOOSE i \in 1..Len(g.nodes) : g.nodes[i].id = id ELSE 0

EdgesOf(g) == {g.edges[i] : i \in 1..Len(g.edges)}

\* The places, in the edge list, of the edges into and out of a node.
Incoming(g, id) == {i \in 1..Len(g.edges) : g.edges[i].to = id}
Outgoing(g, id) == {i \in 1..Len(g.edges) : g.edges[i].from = id}

RECURSIVE ReachableFrom(_, _)
\* The nodes some path of edges from a node of from leads to (from included).
ReachableFrom(g, from) ==
    LET more == from \cup {e.to : e \in {e \in EdgesOf(g) : e.from \in from}}
    IN  IF more = from THEN from ELSE ReachableFrom(g, more)

\* The nodes a path of one edge or more from id leads to.
After(g, id) == ReachableFrom(g, {e.to : e \in {e \in EdgesOf(g) : e.from = id}})

RECURSIVE Visited(_)
\* The statements the visitor is called on for a statement list, in the
\* order of the calls: the statements of if, for and while bodies are
\* visited, those of a function body are not.
Visited(ss) ==
    IF ss = <<>> THEN <<>>
    ELSE (IF Head(ss).kind \in {"If", "For", "While"}
          THEN <<Head(ss)>> \o Visited(Head(ss).body) \o Visited(Head(ss).orelse)
          ELSE <<Head(ss)>>)
         \o Visited(Tail(ss))

RECURSIVE Everywhere(_)
\* Every statement of a statement list, function bodies included.
Everywhere(ss) ==
    IF ss = <<>> THEN <<>>
    ELSE <<Head(ss)>> \o Everywhere(Head(ss).body) \o Everywhere(Head(ss).orelse)
         \o Everywhere(Tail(ss))

\* How many statements of a sequence are of one of the kinds.
HowMany(stmts, kinds) == Cardinality({i \in 1..Len(stmts) : stmts[i].kind \in kinds})

\* The calls of run r, so far returned, on statements of the kinds.
CallsOn(r, kinds) == {i \in 1..Len(calls[r]) : calls[r][i].stmt.kind \in kinds}

\* The statements of a sequence that are of one of the kinds, in order.
OfKinds(stmts, kinds) == SelectSeq(stmts, LAMBDA s : s.kind \in kinds)

\* The returned call of run r on a statement.
CallOf(r, stmt) == calls[r][CHOOSE i \in 1..Len(calls[r]) : calls[r][i].stmt = stmt]

\* The statement lists the visitor of run r has gone through, each with the
\* node that takes the edge from the list's exit: END for tree.body, the
\* merge node for the branches of an if, the loop node for a loop's body.
SequencesOf(r) ==
    LET g == Graph(r)
        done == {calls[r][i] : i \in 1..Len(calls[r])}
    IN  {[stmts |-> tree[r].body, next |-> g.nodes[Len(g.nodes)].id]}
        \cup {[stmts |-> c.stmt.body, next |-> c.result] :
                 c \in {c \in done : c.stmt.kind = "If"}}
        \cup {[stmts |-> c.stmt.orelse, next |-> c.result] :
                 c \in {c \in done : c.stmt.kind = "If"}}
        \cup {[stmts |-> c.stmt.body, next |-> c.node] :
                 c \in {c \in done : c.stmt.kind \in {"For", "While"}}}

\* ------------------------------------------------------------------ claims

\* C1: the graph generate_from_code returns has exactly one start node and
\* exactly one end node, and every node but the start node is the target of
\* at least one edge.
C1_OneStartOneEnd ==
    \A r \in Runs : Compiled(r) =>
        LET g == Graph(r)
        IN  /\ outcome[r].analysis_data.nodes = g.nodes
            /\ Cardinality({i \in 1..Len(g.nodes) : g.nodes[i].type = "start"}) = 1
            /\ Cardinality({i \in 1..Len(g.nodes) : g.nodes[i].type = "end"}) = 1
            /\ \A i \in 1..Len(g.nodes) :
                  g.nodes[i].type # "start" => Incoming(g, g.nodes[i].id) # {}

\* A returned graph with an if (else branch included) in it.
C1_Witness ==
    /\ Compiled(1)
    /\ \E i \in CallsOn(1, {"If"}) : calls[1][i].stmt.orelse # <<>>
    /\ Len(Graph(1).nodes) = 6

\* C2: in every state, during and after a compilation, both ends of every
\* edge of the edge list are ids of the node mapping.
C2_EdgesJoinNodes ==
    \A r \in Runs :
        \A e \in EdgesOf(Graph(r)) :
            e.from \in NodeIds(Graph(r)) /\ e.to \in NodeIds(Graph(r))

\* In the middle of a compilation: inside the body of a loop that is inside
\* an if, with edges already drawn.
C2_Witness ==
    /\ pc[1] = "visit"
    /\ Len(stack[1]) = 2
    /\ stack[1][1].stmt.kind = "If" /\ stack[1][2].stmt.kind = "While"
    /\ Len(Graph(1).edges) = 3

\* C3 (as claimed): a source the parser rejects is answered with the client
\* error 400 carrying the parser's message, never with the server error 500.
C3_SyntaxErrorIsClientError ==
    \A r \in Runs : (pc[r] = "done" /\ ~request[r].ok) =>
        /\ response[r].status_code = 400
        /\ response[r].detail = "Syntax error in Python code: " \o request[r].msg

\* C4: every if visited has one decision node and one merge node of its own;
\* the decision node has exactly two outgoing edges in the finished graph;
\* the merge node has exactly two incoming edges, one from the then branch's
\* exit and one from the else branch's exit (the decision node when there is
\* no else); and each edge leaving the decision node leads on to the merge
\* node.
C4_IfDecisionAndMerge ==
    \A r \in Runs : Compiled(r) =>
        LET g == Graph(r)
            ifs == CallsOn(r, {"If"})
        IN  /\ Cardinality(ifs) = HowMany(Visited(tree[r].body), {"If"})
            /\ Cardinality({i \in 1..Len(g.nodes) : g.nodes[i].label = "Merge"})
                  = Cardinality(ifs)
            /\ \A i, j \in ifs :
                  i # j => /\ calls[r][i].node # calls[r][j].node
                           /\ calls[r][i].result # calls[r][j].result
            /\ \A i \in ifs :
                  LET c == calls[r][i]
                  IN  /\ c.node \in NodeIds(g) /\ c.result \in NodeIds(g)
                      /\ NodeOf(g, c.node).type = "decision"
                      /\ NodeOf(g, c.node).line = c.stmt.lineno
                      /\ NodeOf(g, c.result).label = "Merge"
                      /\ NodeOf(g, c.result).type = "process"
                      /\ Cardinality(Outgoing(g, c.node)) = 2
                      /\ Cardinality(Incoming(g, c.result)) = 2
                      /\ \E m, n \in Incoming(g, c.result) :
                            /\ m # n
                            /\ g.edges[m].from = c.if_end
                            /\ g.edges[n].from = c.else_end
                      /\ (c.stmt.orelse = <<>>) => (c.else_end = c.node)
                      /\ \A k \in Outgoing(g, c.node) :
                            c.result \in ReachableFrom(g, {g.edges[k].to})

\* A finished graph of an if nested in the then branch of an if.
C4_Witness ==
    /\ Compiled(1)
    /\ Cardinality(CallsOn(1, {"If"})) = 2
    /\ \E i \in CallsOn(1, {"If"}) : calls[1][i].stmt.body[1].kind = "If"

\* C5: every for and while visited has an edge labeled "Continue" from the
\* exit of its body to its own decision node, so that a cycle of the
\* finished graph goes through that node.
C5_LoopBackEdge ==
    \A r \in Runs : Compiled(r) =>
        LET g == Graph(r)
            loops == CallsOn(r, {"For", "While"})
        IN  /\ Cardinality(loops) = HowMany(Visited(tree[r].body), {"For", "While"})
            /\ Cardinality({k \in 1..Len(g.edges) : g.edges[k].label = "Continue"})
                  = Cardinality(loops)
            /\ \A i \in loops :
                  LET c == calls[r][i]
                  IN  /\ c.node \in NodeIds(g)
                      /\ NodeOf(g, c.node).type = "decision"
                      /\ c.body_end \in After(g, c.node)
                      /\ [from |-> c.body_end, to |-> c.node, label |-> "Continue"]
                            \in EdgesOf(g)
                      /\ c.node \in After(g, c.node)

\* A finished graph of a for loop whose body is a while loop.
C5_Witness ==
    /\ Compiled(1)
    /\ \E i, j \in CallsOn(1, {"For", "While"}) :
          /\ calls[1][i].stmt.kind = "While" /\ calls[1][j].stmt.kind = "For"
          /\ calls[1][j].body_end = calls[1][i].node

\* C6: two compilations of the same input, stepped side by side on two
\* generators, return identical node mappings, edge lists and diagram text,
\* whatever execution times they measure.
C6_SameInputSameDiagram ==
    (outcome[1].returned /\ outcome[2].returned) =>
        /\ outcome[1].analysis_data.nodes = outcome[2].analysis_data.nodes
        /\ generator[1].edges = generator[2].edges
        /\ outcome[1].mermaid_code = outcome[2].mermaid_code

\* Both compilations of an input with a decision node have returned, having
\* measured different execution times.
C6_Witness ==
    /\ outcome[1].returned /\ outcome[2].returned
    /\ request[1] = request[2]
    /\ outcome[1].analysis_data.performance_metrics.execution_time
          # outcome[2].analysis_data.performance_metrics.execution_time
    /\ \E i \in 1..Len(generator[1].nodes) : generator[1].nodes[i].type = "decision"

\* The calls of run r, so far returned, that took the generic branch.
GenericCalls(r) == {i \in 1..Len(calls[r]) : Branch(calls[r][i].stmt) = "Generic"}

\* C7 (as claimed): the node of a statement not specifically handled is
\* labeled with the statement's syntactic kind name.
C7_GenericLabelIsKindName ==
    \A r \in Runs : \A i \in GenericCalls(r) :
        NodeOf(Graph(r), calls[r][i].node).label = TypeName(calls[r][i].stmt)

\* C7 (amended): a statement not specifically handled never fails the
\* compilation; its call creates one process node labeled "Statement: "
\* followed by the statement's kind name, at the statement's line, draws one
\* unlabeled edge from the current node to it and returns it.  Every node and
\* edge of the builder is accounted for by the driver and the calls: one node
\* and one edge per call, a second node and two more edges per if returned,
\* one more edge per loop returned.
C7_GenericNode ==
    \A r \in Runs :
        LET g == Graph(r)
            began == Len(calls[r]) + Len(stack[r])
            ifs == Cardinality(CallsOn(r, {"If"}))
            loops == Cardinality(CallsOn(r, {"For", "While"}))
            ended == IF pc[r] \in {"time", "mermaid", "returned", "done"} THEN 1 ELSE 0
        IN  /\ \A i \in GenericCalls(r) :
                  LET c == calls[r][i]
                  IN  /\ c.node \in NodeIds(g)
                      /\ NodeOf(g, c.node).label = "Statement: " \o c.stmt.kind
                      /\ NodeOf(g, c.node).type = "process"
                      /\ NodeOf(g, c.node).line = c.stmt.lineno
                      /\ c.result = c.node
                      /\ Cardinality(Incoming(g, c.node)) = 1
                      /\ \A k \in Incoming(g, c.node) :
                            g.edges[k].from = c.current_node /\ g.edges[k].label = ""
            /\ pc[r] \in {"visit", "time", "mermaid", "returned"} =>
                  /\ Len(g.nodes) = 1 + began + ifs + ended
                  /\ Len(g.edges) = began + 2 * ifs + loops + ended
            /\ (pc[r] = "done" /\ request[r].ok) => response[r].status_code = HttpOk
            /\ request[r].ok => outcome[r].exc = NoException

\* An answered request whose program holds both a pass and an expression
\* statement that is no call.
C7_Witness ==
    /\ pc[1] = "done" /\ response[1].status_code = HttpOk
    /\ \E i, j \in GenericCalls(1) :
          calls[1][i].stmt.kind = "Pass" /\ calls[1][j].stmt.kind = "Expr"

\* C8: the complexity label is decided by score = loops + 0.5 * ifs, counted
\* over the whole tree: 0 is constant, above 0 up to 1 linear, above 1 up to
\* 2 quadratic, above 2 cubic or higher.  So no loop and no if is constant,
\* one if alone is linear, one loop alone is linear, two loops alone are
\* quadratic.  (twice is two times the score.)
C8_ComplexityBuckets ==
    \A r \in Runs : pc[r] = "insights" =>
        LET every == Everywhere(tree[r].body)
            loops == HowMany(every, {"For", "While"})
            ifs == HowMany(every, {"If"})
            twice == 2 * loops + ifs
            label == generator[r].performance_metrics.complexity
        IN  /\ (twice = 0) <=> (label = "O(1)")
            /\ (0 < twice /\ twice <= 2) <=> (label = "O(n)")
            /\ (2 < twice /\ twice <= 4) <=> (label = "O(n²)")
            /\ (4 < twice) <=> (label = "O(n³+)")
            /\ (loops = 0 /\ ifs = 0) => label = "O(1)"
            /\ (loops = 0 /\ ifs = 1) => label = "O(n)"
            /\ (loops = 1 /\ ifs = 0) => label = "O(n)"
            /\ (loops = 2 /\ ifs = 0) => label = "O(n²)"

\* Two nested for loops, estimated quadratic.
C8_Witness ==
    /\ pc[1] = "insights"
    /\ tree[1].body = <<ForStmt(1, <<ForStmt(2, <<PassStmt(3)>>)>>)>>
    /\ generator[1].performance_metrics.complexity = "O(n²)"

\* C9: for every if, the edge from the then branch's exit into the merge
\* node is labeled "Yes"; the edge from the else branch's exit into the merge
\* node, drawn right after it, is labeled "No" when the if has an else branch
\* and is unlabeled when it has none.
C9_MergeEdgeLabels ==
    \A r \in Runs : Compiled(r) =>
        LET g == Graph(r)
        IN  \A i \in CallsOn(r, {"If"}) :
                LET c == calls[r][i]
                IN  \E k \in 1..(Len(g.edges) - 1) :
                        /\ Incoming(g, c.result) = {k, k + 1}
                        /\ g.edges[k] = [from |-> c.if_end, to |-> c.result, label |-> "Yes"]
                        /\ g.edges[k + 1].from = c.else_end
                        /\ (c.stmt.orelse # <<>>) => g.edges[k + 1].label = "No"
                        /\ (c.stmt.orelse = <<>>) => g.edges[k + 1].label = ""

\* A finished graph of an if whose else branch ends in a return: the edge
\* from the Return node into the merge node is there, labeled "No".
C9_Witness ==
    /\ Compiled(1)
    /\ \E i \in CallsOn(1, {"If"}) :
          /\ calls[1][i].stmt.orelse # <<>>
          /\ calls[1][i].stmt.orelse[Len(calls[1][i].stmt.orelse)].kind = "Return"
          /\ [from |-> calls[1][i].else_end, to |-> calls[1][i].result, label |-> "No"]
                \in EdgesOf(Graph(1))

\* if x > 0: <one assignment>, without else, as the whole program.
IfAssignOnly == <<IfStmt(1, <<AssignYZ(2)>>, <<>>)>>

\* C10 (as claimed): for an if without else whose then branch is a single
\* assignment, the graph has an edge from the decision node straight into the
\* merge node that is labeled "No".
C10_DecisionToMergeLabeledNo ==
    \A r \in Runs : (Compiled(r) /\ tree[r].body = IfAssignOnly) =>
        \E c \in {calls[r][i] : i \in CallsOn(r, {"If"})} :
            [from |-> c.node, to |-> c.result, label |-> "No"] \in EdgesOf(Graph(r))

\* C10 (amended): for an if without else whose then branch is a single
\* assignment, the graph is START, the decision node, one process node on the
\* "Yes" path, the merge node and END, and the edge from the decision node
\* straight into the merge node is unlabeled.
C10_DecisionToMergeUnlabeled ==
    \A r \in Runs : (Compiled(r) /\ tree[r].body = IfAssignOnly) =>
        LET g == Graph(r)
        IN  /\ [i \in 1..Len(g.nodes) |-> g.nodes[i].type]
                  = <<"start", "decision", "process", "process", "end">>
            /\ [i \in 1..Len(g.nodes) |-> g.nodes[i].label]
                  = <<"START", "If x > 0?", "Assign: y, z", "Merge", "END">>
            /\ g.edges = <<[from |-> g.nodes[1].id, to |-> g.nodes[2].id, label |-> ""],
                           [from |-> g.nodes[2].id, to |-> g.nodes[3].id, label |-> ""],
                           [from |-> g.nodes[3].id, to |-> g.nodes[4].id, label |-> "Yes"],
                           [from |-> g.nodes[2].id, to |-> g.nodes[4].id, label |-> ""],
                           [from |-> g.nodes[4].id, to |-> g.nodes[5].id, label |-> ""]>>

\* That program, compiled.
C10_Witness ==
    /\ Compiled(1)
    /\ tree[1].body = IfAssignOnly
    /\ Len(Graph(1).edges) = 5

\* C11: a function definition visited contributes exactly one process node,
\* labeled "Function: " and its name, and one unlabeled edge into it from the
\* current node, whatever its body holds: no statement of the body is visited
\* or gets a node, and the functions list gets one entry (name, parameter
\* names, line) per definition visited, in order.  A program that is one
\* function definition compiles to START, "Function: f", END and two edges.
C11_FunctionDefOneNode ==
    \A r \in Runs : Compiled(r) =>
        LET g == Graph(r)
            visited == Visited(tree[r].body)
            defs == OfKinds(visited, {"FunctionDef"})
        IN  /\ Len(calls[r]) = Len(visited)
            /\ {calls[r][i].stmt : i \in 1..Len(calls[r])}
                  = {visited[i] : i \in 1..Len(visited)}
            /\ Len(g.nodes) = 2 + Len(visited) + HowMany(visited, {"If"})
            /\ Len(g.edges) = 1 + Len(visited) + 2 * HowMany(visited, {"If"})
                                + HowMany(visited, {"For", "While"})
            /\ g.functions_defined
                  = [k \in 1..Len(defs) |->
                        [name |-> defs[k].name, args |-> defs[k].args, line |-> defs[k].lineno]]
            /\ outcome[r].analysis_data.functions = g.functions_defined
            /\ \A k \in 1..Len(defs) :
                  LET c == CallOf(r, defs[k])
                      inside == Everywhere(c.stmt.body)
                  IN  /\ c.node \in NodeIds(g) /\ c.result = c.node
                      /\ NodeOf(g, c.node) = [id |-> c.node, label |-> "Function: " \o c.stmt.name,
                                              type |-> "process", line |-> c.stmt.lineno]
                      /\ \E e \in Incoming(g, c.node) :
                            /\ Incoming(g, c.node) = {e}
                            /\ g.edges[e] = [from |-> c.current_node, to |-> c.node, label |-> ""]
                      /\ \A j \in 1..Len(inside) :
                            /\ \A i \in 1..Len(calls[r]) : calls[r][i].stmt # inside[j]
                            /\ \A i \in 1..Len(g.nodes) : g.nodes[i].line # inside[j].lineno
            /\ (Len(tree[r].body) = 1 /\ tree[r].body[1].kind = "FunctionDef") =>
                  /\ g.nodes = <<[id |-> "node0", label |-> "START", type |-> "start",
                                  line |-> NoLine],
                                 [id |-> "node1", label |-> "Function: f", type |-> "process",
                                  line |-> 1],
                                 [id |-> "node2", label |-> "END", type |-> "end",
                                  line |-> NoLine]>>
                  /\ g.edges = <<[from |-> "node0", to |-> "node1", label |-> ""],
                                 [from |-> "node1", to |-> "node2", label |-> ""]>>

\* A program that is one function definition whose body is a loop around a
\* statement, compiled: three nodes, one function listed.
C11_Witness ==
    /\ Compiled(1)
    /\ Len(tree[1].body) = 1 /\ tree[1].body[1].kind = "FunctionDef"
    /\ tree[1].body[1].body[1].kind \in {"For", "While"}
    /\ Len(Graph(1).nodes) = 3
    /\ Len(Graph(1).functions_defined) = 1

\* C12: when the parser rejects the input, generate_from_code returns no
\* result and the visitor never runs; no node or edge is created, and the
\* generator's node mapping, edge list and id counter are, after the failed
\* call, what they were before it.
C12_FailedParseLeavesBuilder ==
    [][\A r \in Runs :
          LET before == generator[Builder(r)]
              after == generator'[Builder(r)]
              same == /\ after.nodes = before.nodes
                      /\ after.edges = before.edges
                      /\ after.node_id = before.node_id
          IN  /\ (pc[r] \in {"returned", "raised"} /\ pc'[r] = "parse") => same
              /\ (pc[r] = "parse" /\ pc'[r] = "raised") =>
                    /\ ~request[r].ok
                    /\ same
                    /\ ~outcome'[r].returned
                    /\ outcome'[r].mermaid_code = ""
                    /\ outcome'[r].exc # NoException
                    /\ calls'[r] = <<>> /\ stack'[r] = <<>>
              /\ (pc[r] = "parse" /\ ~request[r].ok) => pc'[r] \in {"parse", "raised"}]_vars

\* A call that failed on a generator an earlier call has left nodes and edges
\* in.
C12_Witness ==
    /\ pc[1] = "raised"
    /\ ~request[1].ok
    /\ Len(Graph(1).nodes) = 4 /\ Len(Graph(1).edges) = 3
    /\ Graph(1).node_id = 4

\* C13: the k-th node created since the last reset has the id "node" and k-1,
\* so no two nodes share an id and the counter is the number of nodes; a
\* step other than a reset removes no node and changes no node's label, kind
\* or line: it leaves the node mapping as it was or adds one node at its end.
C13_IdsSequentialNodesKept ==
    [][\A r \in Runs :
          LET before == generator[Builder(r)].nodes
              after == generator'[Builder(r)].nodes
          IN  /\ \A k \in 1..Len(after) : after[k].id = "node" \o ToString(k - 1)
              /\ \A j, k \in 1..Len(after) : j # k => after[j].id # after[k].id
              /\ Len(after) > 0 => generator'[Builder(r)].node_id = Len(after)
              /\ \/ pc[r] = "reset" /\ pc'[r] = "analyze"
                 \/ after = before
                 \/ /\ Len(after) = Len(before) + 1
                    /\ SubSeq(after, 1, Len(before)) = before]_vars

\* A generator about to be reset with the four nodes of an earlier call in
\* it.
C13_Witness ==
    /\ pc[1] = "reset"
    /\ Len(Graph(1).nodes) = 4
    /\ Graph(1).nodes[4].id = "node3"

\* C14: whatever calls, successful or failed, a generator has served before,
\* its generate_from_code on a code returns or raises what the same call on a
\* generator just constructed does, and leaves the same node mapping, edge
\* sequence, variables and functions list (the measured time apart).
C14_ReuseIsolated ==
    \A r \in Runs :
        LET g == Graph(r)
            alone == generate_from_code(request[r], g.performance_metrics.execution_time)
            fresh == FreshlyCompiled(request[r], g.performance_metrics.execution_time)
        IN  /\ Compiled(r) =>
                  /\ outcome[r].mermaid_code = alone.mermaid_code
                  /\ outcome[r].analysis_data = alone.analysis_data
                  /\ g.nodes = fresh.nodes
                  /\ g.edges = fresh.edges
                  /\ g.variables_used = fresh.variables_used
                  /\ g.functions_defined = fresh.functions_defined
                  /\ g = fresh
            /\ pc[r] = "raised" => outcome[r] = alone

\* A code with an if in it compiled by a generator that has served a sample
\* request before.
C14_Witness ==
    /\ Compiled(1)
    /\ request[1] \notin SampleSources
    /\ CallsOn(1, {"If"}) # {}
    /\ Len(Graph(1).nodes) = 5

\* C15: the diagram text is 1 + |nodes| + |edges| lines joined by newlines:
\* the header "flowchart TD", then one line per node in creation order (round
\* brackets for start and end nodes, braces for decision nodes, square
\* brackets for every other kind), then one line per edge in creation order,
\* a labeled arrow exactly when the edge's label is not empty; so no node
\* line comes after an edge line.
C15_DiagramLines ==
    \A r \in Runs : Compiled(r) =>
        LET g == Graph(r)
            n == Len(g.nodes)
            e == Len(g.edges)
            lines == MermaidLines(g)
            Open(type) == IF type \in {"start", "end"} THEN "(["
                          ELSE IF type = "decision" THEN "{" ELSE "["
            Close(type) == IF type \in {"start", "end"} THEN "])"
                           ELSE IF type = "decision" THEN "}" ELSE "]"
        IN  /\ outcome[r].mermaid_code = JoinStr(lines, "\n")
            /\ Len(lines) = 1 + n + e
            /\ lines[1] = "flowchart TD"
            /\ \A i \in 1..n :
                  lines[1 + i] = "    " \o g.nodes[i].id \o Open(g.nodes[i].type)
                                    \o g.nodes[i].label \o Close(g.nodes[i].type)
            /\ \A k \in 1..e :
                  lines[1 + n + k] =
                      IF g.edges[k].label = ""
                      THEN "    " \o g.edges[k].from \o " --> " \o g.edges[k].to
                      ELSE "    " \o g.edges[k].from \o " -->|" \o g.edges[k].label \o "| "
                              \o g.edges[k].to

\* The diagram of a graph with start, end, decision and process nodes and
\* with labeled and unlabeled edges.
C15_Witness ==
    /\ Compiled(1)
    /\ {Graph(1).nodes[i].type : i \in 1..Len(Graph(1).nodes)}
          = {"start", "end", "decision", "process"}
    /\ \E k \in 1..Len(Graph(1).edges) : Graph(1).edges[k].label = "Continue"
    /\ \E k \in 1..Len(Graph(1).edges) : Graph(1).edges[k].label = ""
    /\ outcome[1].mermaid_code # ""

\* C16: two requests answered side by side, their steps interleaved in every
\* way, each get what their request gets when it is answered alone by a
\* generator of its own: the same node mapping with the same ids, the same
\* edges, the same diagram text and the same insights (the measured time
\* apart), or the same failure.
C16_ConcurrentRequestsIsolated ==
    \A r \in Runs :
        LET g == Graph(r)
            alone == generate_from_code(request[r], g.performance_metrics.execution_time)
            fresh == FreshlyCompiled(request[r], g.performance_metrics.execution_time)
        IN  /\ Compiled(r) =>
                  /\ outcome[r] = alone
                  /\ g.nodes = fresh.nodes /\ g.edges = fresh.edges
                  /\ g.code_insights = fresh.code_insights
            /\ pc[r] = "raised" => outcome[r] = alone
            /\ pc[r] = "done" =>
                  /\ outcome[r].exc = alone.exc
                  /\ response[r].mermaid = alone.mermaid_code
                  /\ response[r].nodes.nodes = alone.analysis_data.nodes
                  /\ response[r].nodes.code_insights = alone.analysis_data.code_insights
                  /\ response[r].nodes.variables = alone.analysis_data.variables
                  /\ response[r].nodes.functions = alone.analysis_data.functions

\* One request has its graph returned while the other, with another code, is
\* in the middle of its own compilation.
C16_Witness ==
    /\ Compiled(1)
    /\ CallsOn(1, {"For", "While"}) # {}
    /\ request[2] # request[1] /\ request[2].ok
    /\ pc[2] = "visit"
    /\ Len(generator[Builder(2)].nodes) = 2

\* C17: the call on a for or while returns the loop's decision node, not the
\* exit of its body.  What comes after the loop in its statement list -- the
\* node of the next statement, or the merge node, END or the enclosing loop's
\* node when the loop is last -- has an edge from the loop's decision node
\* and none from the exit of the loop's body; the next statement is visited
\* with the decision node as its current node; and the loop has one node only
\* (every node without a line is START, END or a merge node).
C17_LoopReturnsDecisionNode ==
    \A r \in Runs : Compiled(r) =>
        LET g == Graph(r)
        IN  /\ \A q \in SequencesOf(r) : \A k \in 1..Len(q.stmts) :
                  q.stmts[k].kind \in {"For", "While"} =>
                      LET c == CallOf(r, q.stmts[k])
                          follower == IF k < Len(q.stmts)
                                      THEN CallOf(r, q.stmts[k + 1]).node ELSE q.next
                      IN  /\ c.result = c.node
                          /\ c.body_end # c.node
                          /\ NodeOf(g, c.node).type = "decision"
                          /\ \E e \in EdgesOf(g) : e.from = c.node /\ e.to = follower
                          /\ ~\E e \in EdgesOf(g) : e.from = c.body_end /\ e.to = follower
                          /\ k < Len(q.stmts) =>
                                CallOf(r, q.stmts[k + 1]).current_node = c.node
                          /\ Cardinality({i \in 1..Len(g.nodes) :
                                             g.nodes[i].line = c.stmt.lineno}) = 1
            /\ Cardinality({i \in 1..Len(g.nodes) : g.nodes[i].line = NoLine})
                  = 2 + Cardinality(CallsOn(r, {"If"}))

\* A compiled program whose first statement is a loop, a statement after it.
C17_Witness ==
    /\ Compiled(1)
    /\ Len(tree[1].body) = 2
    /\ tree[1].body[1].kind \in {"For", "While"}
    /\ [from |-> "node1", to |-> "node3", label |-> ""] \in EdgesOf(Graph(1))

\* C18: the START node is created first (it is "node0", first in the node
\* mapping, in every state that has a node) and the END node last (no node
\* follows it; its id is the highest).  In the returned graph the END node
\* has exactly one incoming edge, from the node the visitor returned for the
\* last top-level statement (from START if there is no statement), and no
\* outgoing edge, and START has no incoming edge.
C18_StartFirstEndLast ==
    \A r \in Runs :
        LET g == Graph(r)
            n == Len(g.nodes)
        IN  /\ n > 0 => g.nodes[1].type = "start" /\ g.nodes[1].id = "node0"
            /\ \A i \in 1..n : g.nodes[i].type = "end" => i = n
            /\ \A i \in 2..n : g.nodes[i].type # "start"
            /\ Compiled(r) =>
                  LET start == g.nodes[1].id
                      end == g.nodes[n].id
                      last == IF tree[r].body = <<>> THEN start
                              ELSE CallOf(r, tree[r].body[Len(tree[r].body)]).result
                  IN  /\ g.nodes[n].type = "end"
                      /\ end = "node" \o ToString(n - 1)
                      /\ \A i \in 1..n : Place(g, start) <= i /\ i <= Place(g, end)
                      /\ Cardinality(Incoming(g, end)) = 1
                      /\ \A k \in Incoming(g, end) : g.edges[k].from = last
                      /\ Outgoing(g, end) = {}
                      /\ Incoming(g, start) = {}

\* A compiled program whose last top-level statement is an if: END's edge
\* comes from the merge node.
C18_Witness ==
    /\ Compiled(1)
    /\ Len(tree[1].body) = 2
    /\ tree[1].body[2].kind = "If"
    /\ NodeOf(Graph(1), Graph(1).edges[Len(Graph(1).edges)].from).label = "Merge"

\* C19: in the returned graph of a code the parser accepts every node -- the
\* merge node of an if without else, the nodes of loop bodies and END
\* included -- is reached from START along edges.
C19_AllReachableFromStart ==
    \A r \in Runs : Compiled(r) =>
        LET g == Graph(r)
        IN  NodeIds(g) = ReachableFrom(g, {g.nodes[1].id})

\* A compiled program with an if without else and a while loop in it.
C19_Witness ==
    /\ Compiled(1)
    /\ \E i \in CallsOn(1, {"If"}) : calls[1][i].stmt.orelse = <<>>
    /\ CallsOn(1, {"While"}) # {}
    /\ Len(Graph(1).nodes) = 6

\* C20: in the returned graph every edge not labeled "Continue" leads from a
\* node to a node created strictly later (of higher id), every edge labeled
\* "Continue" leads from a node to a node created no later, and the graph
\* without its "Continue" edges has no cycle.
C20_OnlyContinueEdgesGoBack ==
    \A r \in Runs : Compiled(r) =>
        LET g == Graph(r)
            forward == [g EXCEPT !.edges = SelectSeq(@, LAMBDA e : e.label # "Continue")]
        IN  /\ \A e \in EdgesOf(g) :
                  /\ e.from \in NodeIds(g) /\ e.to \in NodeIds(g)
                  /\ e.label # "Continue" => Place(g, e.from) < Place(g, e.to)
                  /\ e.label = "Continue" => Place(g, e.to) <= Place(g, e.from)
            /\ \A id \in NodeIds(g) : id \notin After(forward, id)

\* A compiled program of a loop inside a loop: two edges go back.
C20_Witness ==
    /\ Compiled(1)
    /\ Cardinality({k \in 1..Len(Graph(1).edges) : Graph(1).edges[k].label = "Continue"}) = 2
    /\ \E i \in CallsOn(1, {"For", "While"}) : calls[1][i].stmt.body[1].kind \in {"For", "While"}

\* C21: every assignment visited has one process node of its own, labeled
\* with its simple-name targets, and one edge into it, from the current node;
\* the call returns that node.  The variables returned are exactly the
\* simple-name targets of the assignments visited (at top level and in if,
\* for and while bodies): an assignment in a function body adds none.
C21_AssignNodeAndVariables ==
    \A r \in Runs : Compiled(r) =>
        LET g == Graph(r)
            assigns == OfKinds(Visited(tree[r].body), {"Assign"})
            NamesOf(s) == {s.targets[j].id :
                              j \in {j \in 1..Len(s.targets) : s.targets[j].kind = "Name"}}
        IN  /\ g.variables_used = UNION {NamesOf(assigns[k]) : k \in 1..Len(assigns)}
            /\ outcome[r].analysis_data.variables = g.variables_used
            /\ Cardinality(CallsOn(r, {"Assign"})) = Len(assigns)
            /\ \A k \in 1..Len(assigns) :
                  LET c == CallOf(r, assigns[k])
                  IN  /\ c.result = c.node
                      /\ c.node \in NodeIds(g)
                      /\ NodeOf(g, c.node).type = "process"
                      /\ NodeOf(g, c.node).label = "Assign: y, z"
                      /\ NodeOf(g, c.node).line = c.stmt.lineno
                      /\ Cardinality({i \in 1..Len(g.nodes) :
                                         g.nodes[i].line = c.stmt.lineno}) = 1
                      /\ \E e \in Incoming(g, c.node) :
                            /\ Incoming(g, c.node) = {e}
                            /\ g.edges[e] = [from |-> c.current_node, to |-> c.node,
                                             label |-> ""]

\* A compiled program with one assignment in a function body and one after
\* the function definition: the second alone is visited.
C21_Witness ==
    /\ Compiled(1)
    /\ HowMany(Everywhere(tree[1].body), {"Assign"}) = 2
    /\ Cardinality(CallsOn(1, {"Assign"})) = 1
    /\ \E i \in CallsOn(1, {"Assign"}) :
          NodeOf(Graph(1), calls[1][i].current_node).label = "Function: f"
    /\ Graph(1).variables_used = {"y", "z"}

\* C22: the complexity label follows from a score that counts every for and
\* while (1 each) and every if (0.5 each) anywhere in the tree, function
\* bodies included, while the decision nodes of the graph are as many as the
\* if, for and while statements the visitor visits, which can be fewer: a
\* program whose only loop is inside a function definition is labeled "O(n)"
\* and its graph has no decision node.
C22_ScoreCountsFunctionBodies ==
    \A r \in Runs : Compiled(r) =>
        LET g == Graph(r)
            all == Everywhere(tree[r].body)
            halves == 2 * HowMany(all, {"For", "While"}) + HowMany(all, {"If"})
            decisions == Cardinality({i \in 1..Len(g.nodes) : g.nodes[i].type = "decision"})
        IN  /\ g.performance_metrics.complexity =
                  (IF halves = 0 THEN "O(1)"
                   ELSE IF halves <= 2 THEN "O(n)"
                   ELSE IF halves <= 4 THEN "O(n²)" ELSE "O(n³+)")
            /\ outcome[r].analysis_data.performance_metrics.complexity
                  = g.performance_metrics.complexity
            /\ decisions = HowMany(Visited(tree[r].body), {"If", "For", "While"})
            /\ decisions <= HowMany(all, {"If", "For", "While"})
            /\ (/\ HowMany(all, {"For", "While"}) = 1
                /\ HowMany(all, {"If"}) = 0
                /\ HowMany(Visited(tree[r].body), {"For", "While"}) = 0) =>
                  g.performance_metrics.complexity = "O(n)" /\ decisions = 0

\* A compiled program that is one function definition around one loop.
C22_Witness ==
    /\ Compiled(1)
    /\ Len(tree[1].body) = 1 /\ tree[1].body[1].kind = "FunctionDef"
    /\ tree[1].body[1].body[1].kind = "For"
    /\ Graph(1).performance_metrics.complexity = "O(n)"
    /\ \A i \in 1..Len(Graph(1).nodes) : Graph(1).nodes[i].type # "decision"

\* C23: a return statement visited has one process node labeled "Return",
\* with an edge into it from the current node, and the flow goes on from it:
\* what comes after it in its statement list -- the node of the next
\* statement, or the merge node, the loop's decision node or END when it is
\* last -- has an edge from the Return node, so that a Return node always has
\* an outgoing edge; the next statement is visited with the Return node as
\* its current node.
C23_ReturnIsThreaded ==
    \A r \in Runs : Compiled(r) =>
        LET g == Graph(r)
        IN  /\ Cardinality(CallsOn(r, {"Return"}))
                  = HowMany(Visited(tree[r].body), {"Return"})
            /\ \A q \in SequencesOf(r) : \A k \in 1..Len(q.stmts) :
                  q.stmts[k].kind = "Return" =>
                      LET c == CallOf(r, q.stmts[k])
                          follower == IF k < Len(q.stmts)
                                      THEN CallOf(r, q.stmts[k + 1]).node ELSE q.next
                      IN  /\ c.result = c.node
                          /\ NodeOf(g, c.node) = [id |-> c.node, label |-> "Return",
                                                  type |-> "process", line |-> c.stmt.lineno]
                          /\ [from |-> c.current_node, to |-> c.node, label |-> ""]
                                \in EdgesOf(g)
                          /\ \E e \in EdgesOf(g) : e.from = c.node /\ e.to = follower
                          /\ Outgoing(g, c.node) # {}
                          /\ k < Len(q.stmts) =>
                                /\ CallOf(r, q.stmts[k + 1]).current_node = c.node
                                /\ [from |-> c.node, to |-> follower, label |-> ""]
                                      \in EdgesOf(g)

\* A compiled program with a statement after a return at top level.
C23_Witness ==
    /\ Compiled(1)
    /\ Len(tree[1].body) = 2
    /\ tree[1].body[1].kind = "Return"
    /\ [from |-> "node1", to |-> "node2", label |-> ""] \in EdgesOf(Graph(1))
    /\ NodeOf(Graph(1), "node1").label = "Return"

\* C26 (as claimed): the debug endpoint answers an action other than "start",
\* "step" and "stop" with the client error 400 "Unknown debug action: ...",
\* not with the server error 500.
C26_UnknownActionIsClientError ==
    (debug.pc = "done" /\ debug.request.action \notin {"start", "step", "stop"}) =>
        /\ debug.response.status_code = 400
        /\ debug.response.detail = "Unknown debug action: " \o debug.request.action

\* C24: ConnectionManager.broadcast delivers the message to every connected
\* user other than the excluded one, also when a send fails (the broken
\* user is removed and the broadcast goes on without raising), under every
\* interleaving of connects and disconnects with the suspended broadcast:
\* no broadcast an endpoint has made raised, and none returned with a
\* connected user left out.
C24_BroadcastServesAllWithoutRaising ==
    \A user_id \in Users :
        /\ task[user_id].last.status # "raised"
        /\ task[user_id].last.missed = {}

\* C25: after any sequence of completed connect and disconnect calls the
\* keys of active_connections are the keys of user_sessions, and disconnect
\* of an id that is not connected changes nothing.
C25_SameKeysInBothDicts ==
    /\ DictKeys(manager.active_connections) = manager.user_sessions
    /\ \A user_id \in Users \cup {"nobody"} :
          user_id \notin DictKeys(manager.active_connections)
              => disconnect(manager, user_id) = manager

\* A user has connected and been disconnected, another has connected since
\* and is in both dicts, the first in neither.
C25_Witness ==
    \E u, v \in Users :
        /\ task[u].pc = "ended" /\ task[v].pc = "receive"
        /\ u \notin DictKeys(manager.active_connections)
        /\ u \notin manager.user_sessions
        /\ v \in DictKeys(manager.active_connections)
        /\ v \in manager.user_sessions
        /\ Len(manager.active_connections) > 1

====
